---- MODULE Spec2Model ----
(***************************************************************************)
(* The deepfake-detection web API of rey2512/DeepfakeLaunch, in its three  *)
(* variants: main.py, new_backend.py and backend/app.  One server process  *)
(* runs one variant; requests are served one at a time (the handlers hold   *)
(* no state across an await that another request could observe).           *)
(*                                                                         *)
(* Numbers.  Python floats are modelled in fixed point: one score point is *)
(* Scale units, so 100.0 is 100 * Scale and round(x, 2) keeps multiples of *)
(* Scale \div 100.  MD5 is modelled by its table on the byte strings of    *)
(* the model (the digests are the real ones); text is a sequence of        *)
(* one-character strings, so that splitext, lower and startswith are       *)
(* computed as Python computes them.                                       *)
(***************************************************************************)
EXTENDS Integers, Sequences, FiniteSets, TLC

(***************************************************************************)
(* Bounds of the model.                                                    *)
(***************************************************************************)
\* Requests one server process serves in a run (also the uuid4() supply).
MaxRequests == 2

(***************************************************************************)
(* Fixed point.                                                            *)
(***************************************************************************)
Scale == 100 * 100

Pts(n) == n * Scale

Min(a, b) == IF a <= b THEN a ELSE b

Max(a, b) == IF a >= b THEN a ELSE b

Abs(a) == IF a >= 0 THEN a ELSE 0 - a

\* round(x, 2) of a non-negative float: the nearest multiple of 0.01.
Round2(x) == ((x + (Scale \div 200)) \div (Scale \div 100)) * (Scale \div 100)

RECURSIVE SumSeq(_)
SumSeq(s) == IF s = <<>> THEN 0 ELSE Head(s) + SumSeq(Tail(s))

\* A slip in the average: the sum over the ten frames asked for, not over
\* the frames that were scored.
MeanOfTen(s) == SumSeq(s) \div 10

\* sum(xs) / len(xs)
Mean(s) == SumSeq(s) \div Len(s)

MapRound2(s) == [i \in 1..Len(s) |-> Round2(s[i])]

(***************************************************************************)
(* Text: str is a sequence of one-character strings.                       *)
(***************************************************************************)
LowerChar(c) ==
    CASE c = "A" -> "a" [] c = "B" -> "b" [] c = "C" -> "c" [] c = "D" -> "d"
      [] c = "E" -> "e" [] c = "F" -> "f" [] c = "G" -> "g" [] c = "H" -> "h"
      [] c = "I" -> "i" [] c = "J" -> "j" [] c = "K" -> "k" [] c = "L" -> "l"
      [] c = "M" -> "m" [] c = "N" -> "n" [] c = "O" -> "o" [] c = "P" -> "p"
      [] c = "Q" -> "q" [] c = "R" -> "r" [] c = "S" -> "s" [] c = "T" -> "t"
      [] c = "U" -> "u" [] c = "V" -> "v" [] c = "W" -> "w" [] c = "X" -> "x"
      [] c = "Y" -> "y" [] c = "Z" -> "z" [] OTHER -> c

\* str.lower()
Lower(s) == [i \in 1..Len(s) |-> LowerChar(s[i])]

\* str.startswith(prefix)
StartsWith(s, prefix) ==
    /\ Len(s) >= Len(prefix)
    /\ SubSeq(s, 1, Len(prefix)) = prefix

\* Index of the last "." of s, 0 when there is none.
LastDot(s) ==
    LET dots == {i \in 1..Len(s) : s[i] = "."}
    IN  IF dots = {} THEN 0 ELSE CHOOSE i \in dots : \A j \in dots : j <= i

\* os.path.splitext(name)[1] for a name without directory separators: the
\* text from the last dot on, unless that dot is preceded by dots only.
SplitExt(s) ==
    LET d == LastDot(s)
    IN  IF d = 0 \/ (\A j \in 1..(d - 1) : s[j] = ".")
        THEN <<>>
        ELSE SubSeq(s, d, Len(s))

ImagePrefix == <<"i","m","a","g","e","/">>

VideoPrefix == <<"v","i","d","e","o","/">>

DotJpg == <<".","j","p","g">>

DotJpeg == <<".","j","p","e","g">>

DotPng == <<".","p","n","g">>

DotMp4 == <<".","m","p","4">>

DotMov == <<".","m","o","v">>

DotAvi == <<".","a","v","i">>

(***************************************************************************)
(* hashlib.md5(data).hexdigest() on the byte strings of the model.         *)
(***************************************************************************)
Md5Hex(data) ==
    CASE data = "" ->
           <<"d","4","1","d","8","c","d","9","8","f","0","0","b","2","0","4","e","9","8","0","0","9","9","8","e","c","f","8","4","2","7","e">>
      [] data = "Test image content" ->
           <<"5","6","e","6","b","d","5","3","5","0","8","1","5","e","b","1","6","e","9","8","d","b","b","8","e","4","7","b","0","b","c","2">>
      [] data = "photoA" ->
           <<"f","1","9","3","6","5","3","c","4","7","3","e","2","1","9","5","a","5","d","3","b","7","0","6","6","8","7","f","f","5","8","1">>
      [] data = "photoB" ->
           <<"5","1","3","0","b","0","8","c","d","2","4","6","a","b","9","6","b","5","6","5","4","0","b","6","9","4","1","f","2","0","b","5">>
      [] data = "clip3" ->
           <<"b","a","1","5","f","7","e","f","6","f","d","9","5","e","7","1","1","2","2","1","9","7","b","b","a","2","3","d","5","e","9","1">>
      [] data = "clip25" ->
           <<"e","a","0","3","b","d","c","1","6","f","1","0","b","5","c","b","c","5","7","f","3","4","2","2","3","d","a","1","9","e","6","7">>
      [] data = "clipBroken" ->
           <<"8","4","5","7","1","6","6","2","1","3","3","d","e","4","2","6","f","6","9","4","b","a","4","4","8","e","e","1","b","8","2","7">>
      [] data = "clipBad" ->
           <<"a","f","f","3","e","8","b","4","f","8","2","c","8","9","e","e","d","b","3","b","2","7","a","6","0","2","e","c","8","1","5","8">>
      [] data = "clip0" ->
           <<"2","2","5","8","3","c","b","a","2","e","2","1","c","d","f","0","c","9","7","6","1","c","a","9","4","a","7","a","4","5","7","1">>
      [] data = "clipDead" ->
           <<"e","6","b","7","4","a","4","0","8","5","7","e","0","9","a","0","f","7","b","9","b","7","4","5","a","1","c","1","e","6","3","0">>
      [] data = "clipNeg" ->
           <<"6","3","c","1","5","3","e","f","3","0","e","7","8","4","d","a","7","4","e","4","a","8","4","0","b","3","b","7","1","a","2","4">>
      [] data = "jpegA" ->
           <<"7","b","6","0","1","2","0","6","3","4","e","f","2","8","9","6","6","4","2","9","8","5","4","f","a","c","b","0","7","3","9","a">>
      [] data = "jpegB" ->
           <<"9","f","a","4","0","c","0","c","2","b","8","2","0","c","1","b","8","5","8","7","c","e","4","3","c","d","3","f","c","c","2","e">>
      [] data = "jpegC" ->
           <<"4","4","6","6","e","2","2","b","6","c","8","1","9","3","f","b","9","a","c","1","a","5","0","3","b","b","9","c","9","8","6","4">>

HexDigit(c) ==
    CASE c = "0" -> 0 [] c = "1" -> 1 [] c = "2" -> 2 [] c = "3" -> 3
      [] c = "4" -> 4 [] c = "5" -> 5 [] c = "6" -> 6 [] c = "7" -> 7
      [] c = "8" -> 8 [] c = "9" -> 9 [] c = "a" -> 10 [] c = "b" -> 11
      [] c = "c" -> 12 [] c = "d" -> 13 [] c = "e" -> 14 [] c = "f" -> 15

\* int(s, 16) for at most four hex digits.
RECURSIVE HexToInt(_)
HexToInt(s) ==
    IF s = <<>> THEN 0
    ELSE 16 * HexToInt(SubSeq(s, 1, Len(s) - 1)) + HexDigit(s[Len(s)])

\* A slip in the modulus: % 100 gives 0..99.
HashMod100(hash_hex) ==
    LET hi == HexToInt(SubSeq(hash_hex, 1, 4))
        lo == HexToInt(SubSeq(hash_hex, 5, 8))
    IN  ((hi % 100) * (65536 % 100) + (lo % 100)) % 100

\* int(hash_hex[:8], 16) % 101.  The 32-bit value is kept as its two 16-bit
\* halves hi * 65536 + lo, so that no intermediate value exceeds 31 bits.
HashMod101(hash_hex) ==
    LET hi == HexToInt(SubSeq(hash_hex, 1, 4))
        lo == HexToInt(SubSeq(hash_hex, 5, 8))
    IN  ((hi % 101) * (65536 % 101) + (lo % 101)) % 101

\* main.py: get_deterministic_score(data: bytes) -> float
main_get_deterministic_score(data) == Pts(HashMod101(Md5Hex(data)))

\* new_backend.py: get_deterministic_score(file_hash: str) -> float
new_backend_get_deterministic_score(file_hash) == Pts(HashMod101(file_hash))

\* A slip in the thresholds: >= where the code has >.
get_result_category_inclusive(score) ==
    IF score >= Pts(80) THEN "Likely Manipulated"
    ELSE IF score >= Pts(50) THEN "Potentially Manipulated"
    ELSE "Likely Authentic"

\* get_result_category(score), the same in main.py and new_backend.py
get_result_category(score) ==
    IF score > Pts(80) THEN "Likely Manipulated"
    ELSE IF score > Pts(50) THEN "Potentially Manipulated"
    ELSE "Likely Authentic"

(***************************************************************************)
(* Inputs.  An uploaded byte string is named by the string itself.  What   *)
(* OpenCV makes of the bytes (cv2.imread, cv2.VideoCapture, the pixel      *)
(* statistics of a decoded picture) is a library result, given here as     *)
(* attributes of the bytes.                                                *)
(***************************************************************************)
\* A decoded picture (an image or a video frame).  jpeg: the bytes of
\* cv2.imencode('.jpg', .), encodes: whether that call succeeds; std,
\* noise_std, edge_density, contrast: what
\* extract_signal_features measures (1.0 is Scale); raises: the picture makes
\* the feature extraction raise; pyhash: hash(tobytes() + salt) % 1000 for the
\* five salts of backend/app.
Picture(id) ==
    CASE id = "FA" ->
           [jpeg |-> "jpegA", std |-> 314159, noise_std |-> 25000,
            edge_density |-> 1234, contrast |-> 3333, raises |-> FALSE,
            encodes |-> TRUE,
            pyhash |-> [cnn |-> 123, fft |-> 456, noise |-> 789,
                        edge |-> 12, texture |-> 999]]
      [] id = "FB" ->
           [jpeg |-> "jpegB", std |-> 700000, noise_std |-> 60000,
            edge_density |-> 0, contrast |-> 50000, raises |-> FALSE,
            encodes |-> TRUE,
            pyhash |-> [cnn |-> 0, fft |-> 1, noise |-> 2,
                        edge |-> 3, texture |-> 4]]
      [] id = "FC" ->
           [jpeg |-> "jpegC", std |-> 123456, noise_std |-> 7,
            edge_density |-> 10000, contrast |-> 0, raises |-> FALSE,
            encodes |-> FALSE,
            pyhash |-> [cnn |-> 999, fft |-> 998, noise |-> 997,
                        edge |-> 996, texture |-> 995]]
      [] id = "FRaise" ->
           [jpeg |-> "jpegA", std |-> 0, noise_std |-> 0,
            edge_density |-> 0, contrast |-> 0, raises |-> TRUE,
            encodes |-> TRUE,
            pyhash |-> [cnn |-> 500, fft |-> 500, noise |-> 500,
                        edge |-> 500, texture |-> 500]]

\* cv2.imread(path) of a file holding these bytes: a picture, or "None".
Imread(data) ==
    CASE data = "photoA" -> "FA"
      [] data = "photoB" -> "FB"
      [] data = "photoMax" -> "FA"
      [] data = "photoOver" -> "FB"
      [] OTHER -> "None"

\* A frame the capture cannot read.
NoFrame == "NoFrame"

\* cv2.VideoCapture(path) of a file holding these bytes: isOpened(), the
\* CAP_PROP_FRAME_COUNT the container reports, and the frames read() yields.
VideoCapture(data) ==
    CASE data \in {"clip3", "clipMax", "clipOver"} ->
           [opened |-> TRUE, frame_count |-> 3, frames |-> <<"FA", "FB", "FC">>]
      [] data = "clip25" ->
           [opened |-> TRUE, frame_count |-> 25,
            frames |-> [i \in 1..25 |-> IF i % 4 = 1 THEN "FA"
                                        ELSE IF i % 4 = 3 THEN "FB" ELSE "FC"]]
      [] data = "clipBroken" ->
           [opened |-> TRUE, frame_count |-> 12,
            frames |-> <<"FA", "FB", NoFrame, "FC", "FA">>]
      [] data = "clipBad" ->
           [opened |-> TRUE, frame_count |-> 4,
            frames |-> <<"FB", "FRaise", "FC", "FA">>]
      [] data = "clip0" ->
           [opened |-> TRUE, frame_count |-> 0, frames |-> <<>>]
      [] data = "clipDead" ->
           [opened |-> TRUE, frame_count |-> 5, frames |-> <<NoFrame>>]
      \* longer than the 100 frames backend/app copies
      [] data = "clip120" ->
           [opened |-> TRUE, frame_count |-> 120,
            frames |-> [i \in 1..120 |-> IF i % 2 = 1 THEN "FA" ELSE "FB"]]
      \* a container without a duration: the reported count is negative
      [] data = "clipNeg" ->
           [opened |-> TRUE, frame_count |-> -1, frames |-> <<"FA", "FB">>]
      [] OTHER ->
           [opened |-> FALSE, frame_count |-> 0, frames |-> <<>>]

\* len(data)
Size(data) ==
    CASE data = "" -> 0
      [] data = "Test image content" -> 18
      [] data = "photoA" -> 204800
      [] data = "photoB" -> 1048576
      [] data = "photoMax" -> 20 * 1024 * 1024
      [] data = "photoOver" -> 20 * 1024 * 1024 + 1
      [] data = "clipMax" -> 100 * 1024 * 1024
      [] data = "clipOver" -> 100 * 1024 * 1024 + 1
      [] OTHER -> 5242880

\* The uploads a client sends: filename, content type and bytes (an absent
\* filename or content type is the empty text).
Requests ==
    { [filename |-> <<"a",".","j","p","g">>,
       content_type |-> <<"i","m","a","g","e","/","j","p","e","g">>,
       data |-> "photoA"],
      [filename |-> <<"t",".","j","p","g">>,
       content_type |-> <<"i","m","a","g","e","/","j","p","e","g">>,
       data |-> "Test image content"],
      [filename |-> <<"e",".","P","N","G">>,
       content_type |-> <<"i","m","a","g","e","/","p","n","g">>,
       data |-> ""],
      [filename |-> <<>>,
       content_type |-> <<"i","m","a","g","e","/","p","n","g">>,
       data |-> "photoB"],
      [filename |-> <<"c",".","m","p","4">>,
       content_type |-> <<"v","i","d","e","o","/","m","p","4">>,
       data |-> "clip3"],
      [filename |-> <<"l",".","m","o","v">>,
       content_type |-> <<"v","i","d","e","o","/","q","t">>,
       data |-> "clip25"],
      [filename |-> <<"b",".","a","v","i">>,
       content_type |-> <<"v","i","d","e","o","/","a","v","i">>,
       data |-> "clipBroken"],
      [filename |-> <<"x",".","m","p","4">>,
       content_type |-> <<"v","i","d","e","o","/","m","p","4">>,
       data |-> "clipBad"],
      [filename |-> <<"d",".","m","p","4">>,
       content_type |-> <<"v","i","d","e","o","/","m","p","4">>,
       data |-> "clipDead"],
      [filename |-> <<"z">>,
       content_type |-> <<"v","i","d","e","o","/","m","p","4">>,
       data |-> "clip0"],
      [filename |-> <<"w",".","w","e","b","m">>,
       content_type |-> <<"v","i","d","e","o","/","w","e","b","m">>,
       data |-> "clipNeg"],
      [filename |-> <<"n",".","t","x","t">>,
       content_type |-> <<"t","e","x","t","/","p","l","a","i","n">>,
       data |-> "Test image content"],
      [filename |-> <<".","j","p","g">>,
       content_type |-> <<>>,
       data |-> "photoA"] }

\* A video sent to main.py's POST /predict/ with an image content type.
MislabelledUploads ==
    { [filename |-> <<"c",".","m","p","4">>,
       content_type |-> <<"i","m","a","g","e","/","j","p","e","g">>,
       data |-> "clip3"] }

\* A video of more frames than the copy loop of backend/app writes.
LongUploads ==
    { [filename |-> <<"g",".","m","p","4">>,
       content_type |-> <<"v","i","d","e","o","/","m","p","4">>,
       data |-> "clip120"] }

\* Uploads of exactly the largest size backend/app accepts, and of one byte
\* more.
LargeUploads ==
    { [filename |-> <<"m",".","j","p","g">>,
       content_type |-> <<"i","m","a","g","e","/","j","p","e","g">>,
       data |-> "photoMax"],
      [filename |-> <<"o",".","j","p","g">>,
       content_type |-> <<"i","m","a","g","e","/","j","p","e","g">>,
       data |-> "photoOver"],
      [filename |-> <<"m",".","m","p","4">>,
       content_type |-> <<"v","i","d","e","o","/","m","p","4">>,
       data |-> "clipMax"],
      [filename |-> <<"o",".","m","p","4">>,
       content_type |-> <<"v","i","d","e","o","/","m","p","4">>,
       data |-> "clipOver"] }

\* The values random.random() returns during one request, in call order
\* (0 <= r < 1, in units of 1 / Scale).
RandomStreams ==
    { [i \in 1..14 |-> 0],
      [i \in 1..14 |-> IF i % 2 = 1 THEN Scale \div 4 ELSE Scale - 1] }

\* A digest hashlib.md5(str(random.random()).encode()).hexdigest() may give.
RandomDigests == {Md5Hex("jpegB")}

\* The uploads sent to POST /upload/, which looks at the filename only.
UploadRequests ==
    {r \in Requests : r.data \in {"photoA", "", "photoB", "clip0"}}

\* The uploads sent to new_backend.py's POST /predict/, which looks at the
\* filename, the content type and the digest of the bytes.
new_backend_Requests ==
    {r \in Requests : r.data \in {"photoA", "Test image content", "",
                                   "photoB", "clip3", "clip0"}}

(***************************************************************************)
(* State.                                                                  *)
(***************************************************************************)
VARIABLES
    variant,            \* the program this process runs
    model_file_exists,  \* main.py: models/deepfake_model.h5 existed at startup
    disk,               \* the files below the working directory: path -> bytes
    prediction_cache,   \* main.py, new_backend.py: md5 hex digest -> score
    uuids,              \* how many uuid4() values were drawn
    req,                \* the request being served and the handler's position
    responses           \* the responses sent so far, oldest first

vars ==
    <<variant, model_file_exists, disk, prediction_cache, uuids, req,
      responses>>

Variants == {"main", "new_backend", "app"}

\* A relative path dir/.../<prefix><uuid><ext>.
Path(dir, prefix, uuid, ext) ==
    [dir |-> dir, prefix |-> prefix, uuid |-> uuid, ext |-> ext]

\* f"/{path}" and f"/uploads/{name}": the same path below the URL root.
Url(path) == [path EXCEPT !.dir = <<"/">> \o path.dir]

NoPath == Path(<<>>, "", 0, <<>>)

\* open(path, "wb").write(data)
Written(d, path, data) ==
    [p \in (DOMAIN d) \cup {path} |-> IF p = path THEN data ELSE d[p]]

\* os.remove(path)
Removed(d, path) == [p \in (DOMAIN d) \ {path} |-> d[p]]

NoFeatures ==
    [cnn_score |-> 0, fft_score |-> 0, noise_score |-> 0,
     edge_score |-> 0, texture_score |-> 0]

\* {k: round(v, 2) for k, v in feature_contributions.items()}
RoundFeatures(f) ==
    [cnn_score |-> Round2(f.cnn_score), fft_score |-> Round2(f.fft_score),
     noise_score |-> Round2(f.noise_score), edge_score |-> Round2(f.edge_score),
     texture_score |-> Round2(f.texture_score)]

\* The position of a handler that serves no request.
IdleReq ==
    [pc |-> "idle", endpoint |-> "", r |-> [filename |-> <<>>,
     content_type |-> <<>>, data |-> ""], is_image |-> FALSE,
     is_video |-> FALSE, file_location |-> NoPath, file_hash |-> <<>>,
     frame_count |-> 0, frames_to_analyze |-> 0, frame_interval |-> 0,
     frame_index |-> 0, frame_scores |-> <<>>,
     feature_contributions_list |-> <<>>, thumbnail_saved |-> FALSE,
     thumbnail_path |-> NoPath, frames |-> <<>>, scored |-> <<>>, reads |-> 0]

\* A JSON body; keys names the members that are present.
NoBody ==
    [keys |-> {}, score |-> 0, category |-> "", is_deepfake |-> FALSE,
     file_path |-> NoPath, file_type |-> "", thumbnail_path |-> NoPath,
     frame_scores |-> <<>>, frames_analyzed |-> 0,
     feature_contributions |-> NoFeatures, filename |-> NoPath,
     message |-> "", status |-> "", model_loaded |-> FALSE,
     model_file_exists |-> FALSE, uploads_directory |-> FALSE]

\* What the handler did for a response, beside the body it sent: the
\* unrounded score, the frame positions it scored and the frames it read,
\* whether the score came from prediction_cache, whether the saved file could
\* be read back, the status of the exception that ended the processing, the
\* frame count of the capture, and the unrounded frame scores and feature
\* contributions it computed.
NoObs ==
    [raw_score |-> 0, scored |-> <<>>, reads |-> 0, cached |-> FALSE,
     read_back |-> TRUE, raised |-> 0, frame_count |-> 0,
     frame_scores |-> <<>>, features |-> NoFeatures]

Response(endpoint, r, status, detail, body, obs) ==
    [endpoint |-> endpoint, r |-> r, status |-> status, detail |-> detail,
     body |-> body, obs |-> obs]

\* raise HTTPException(status_code, detail)
HTTPException(endpoint, r, status, detail) ==
    Response(endpoint, r, status, detail, NoBody, NoObs)

Init ==
    /\ variant \in Variants
    /\ model_file_exists \in (IF variant = "main" THEN BOOLEAN ELSE {FALSE})
    /\ disk = << >>
    /\ prediction_cache = << >>
    /\ uuids = 0
    /\ req = IdleReq
    /\ responses = << >>

\* The handler returns (or raises): the response is sent, the handler is idle.
Reply(resp) ==
    /\ responses' = Append(responses, resp)
    /\ req' = IdleReq

\* A request may arrive: the handler is idle and the run is not over.
Arrives == req.pc = "idle" /\ Len(responses) < MaxRequests

\* max(0, min(100, score + (random.random() * width - width / 2)))
Jitter(score, rnd, width) ==
    Max(0, Min(Pts(100), score + (width * rnd - Pts(width) \div 2)))

(***************************************************************************)
(* POST /upload/ (main.py and new_backend.py).                             *)
(***************************************************************************)
\* A slip in the extension: lowercased, as POST /predict/ of new_backend.py
\* does.
upload_file_extension_lowered(filename) ==
    IF filename # <<>> THEN Lower(SplitExt(filename)) ELSE DotJpg

\* os.path.splitext(file.filename)[1] if file.filename else ".jpg"
upload_file_extension(filename) ==
    IF filename # <<>> THEN SplitExt(filename) ELSE DotJpg

\* The 200 body of upload_file.
upload_file_body(unique_filename) ==
    [NoBody EXCEPT !.keys = {"message", "filename", "file_path"},
                   !.message = "File uploaded successfully",
                   !.filename = unique_filename,
                   !.file_path = Url(Path(<<"uploads">>, unique_filename.prefix,
                                          unique_filename.uuid,
                                          unique_filename.ext))]

\* upload_file: name the file, write the bytes, answer.  A failing write is
\* answered with 500.
upload_file(r, write_ok, detail) ==
    LET unique_filename == Path(<<>>, "", uuids + 1,
                                upload_file_extension(r.filename))
        file_location == [unique_filename EXCEPT !.dir = <<"uploads">>]
    IN  /\ uuids' = uuids + 1
        /\ IF write_ok
           THEN /\ disk' = Written(disk, file_location, r.data)
                /\ Reply(Response("upload", r, 200, "",
                                  upload_file_body(unique_filename), NoObs))
           ELSE /\ disk' = disk
                /\ Reply(HTTPException("upload", r, 500, detail))
        /\ UNCHANGED <<variant, model_file_exists, prediction_cache>>

main_upload_file ==
    /\ variant = "main"
    /\ Arrives
    /\ \E r \in UploadRequests, write_ok \in BOOLEAN :
         upload_file(r, write_ok, "Error writing file to disk")

new_backend_upload_file ==
    /\ variant = "new_backend"
    /\ Arrives
    /\ \E r \in UploadRequests, write_ok \in BOOLEAN :
         upload_file(r, write_ok, "Error uploading file")

(***************************************************************************)
(* new_backend.py: POST /predict/.                                         *)
(***************************************************************************)
new_backend_image_extensions ==
    { DotJpg, DotJpeg, DotPng, <<".","g","i","f">>, <<".","b","m","p">>,
      <<".","w","e","b","p">> }

new_backend_video_extensions ==
    { DotMp4, DotAvi, DotMov, <<".","w","m","v">>, <<".","f","l","v">>,
      <<".","m","k","v">>, <<".","w","e","b","m">> }

\* os.path.splitext(filename)[1].lower() if filename else ""
new_backend_file_extension(filename) ==
    IF filename # <<>> THEN Lower(SplitExt(filename)) ELSE <<>>

\* A slip in the type check: the extension alone, no fallback to the
\* content type.
new_backend_file_kind_by_extension(r) ==
    LET ext == new_backend_file_extension(r.filename)
    IN  [is_image |-> ext \in new_backend_image_extensions,
         is_video |-> ext \in new_backend_video_extensions]

\* is_image, is_video: by extension, else by content type.
new_backend_file_kind(r) ==
    LET ext == new_backend_file_extension(r.filename)
        by_ext == [is_image |-> ext \in new_backend_image_extensions,
                   is_video |-> ext \in new_backend_video_extensions]
    IN  IF by_ext.is_image \/ by_ext.is_video
        THEN by_ext
        ELSE [is_image |-> StartsWith(r.content_type, ImagePrefix),
              is_video |-> StartsWith(r.content_type, VideoPrefix)]

\* Lines 86-105: the type check and the name of the file.
new_backend_predict_begin ==
    /\ variant = "new_backend"
    /\ Arrives
    /\ \E r \in new_backend_Requests :
         LET kind == new_backend_file_kind(r)
         IN  IF ~(kind.is_image \/ kind.is_video)
             THEN /\ Reply(HTTPException("predict", r, 400,
                                         "File must be an image or video"))
                  /\ UNCHANGED uuids
             ELSE /\ uuids' = uuids + 1
                  /\ req' = [IdleReq EXCEPT
                               !.pc = "save", !.endpoint = "predict", !.r = r,
                               !.is_image = kind.is_image,
                               !.is_video = kind.is_video,
                               !.file_location =
                                   Path(<<"uploads">>, "", uuids + 1,
                                        new_backend_file_extension(r.filename))]
                  /\ UNCHANGED responses
    /\ UNCHANGED <<variant, model_file_exists, disk, prediction_cache>>

\* Lines 107-117: shutil.copyfileobj(file.file, f); a failure is a 500.
new_backend_predict_save ==
    /\ variant = "new_backend"
    /\ req.pc = "save"
    /\ \E write_ok \in BOOLEAN :
         IF write_ok
         THEN /\ disk' = Written(disk, req.file_location, req.r.data)
              /\ req' = [req EXCEPT !.pc = "score"]
              /\ UNCHANGED responses
         ELSE /\ Reply(HTTPException("predict", req.r, 500, "Error saving file"))
              /\ UNCHANGED disk
    /\ UNCHANGED <<variant, model_file_exists, prediction_cache, uuids>>

\* Lines 139-146: the five feature contributions, from four random draws.
new_backend_feature_contributions(score, rnd) ==
    [cnn_score |-> score,
     fft_score |-> Jitter(score, rnd[1], 20),
     noise_score |-> Jitter(score, rnd[2], 20),
     edge_score |-> Jitter(score, rnd[3], 20),
     texture_score |-> Jitter(score, rnd[4], 20)]

\* Lines 152-155: ten frame scores, from the next ten random draws.
new_backend_frame_scores(score, rnd) ==
    [i \in 1..10 |-> Jitter(score, rnd[4 + i], 10)]

\* Lines 157-177: the body returned for a video or an image.
new_backend_body(score, is_video, file_location, rnd) ==
    LET common ==
          [NoBody EXCEPT
             !.score = Round2(score),
             !.category = get_result_category(score),
             !.is_deepfake = score > Pts(50),
             !.file_path = Url(file_location),
             !.feature_contributions =
                 RoundFeatures(new_backend_feature_contributions(score, rnd))]
        frame_scores == new_backend_frame_scores(score, rnd)
    IN  IF is_video
        THEN [common EXCEPT
                !.keys = {"score", "category", "is_deepfake", "file_path",
                          "thumbnail_path", "frame_scores", "frames_analyzed",
                          "file_type", "feature_contributions"},
                !.frame_scores = MapRound2(frame_scores),
                !.frames_analyzed = Len(frame_scores),
                !.file_type = "video"]
        ELSE [common EXCEPT
                !.keys = {"score", "category", "is_deepfake", "file_path",
                          "file_type", "feature_contributions"},
                !.file_type = "image"]

\* Lines 119-177: hash the saved file (a random digest when it cannot be
\* read back), score the digest, remember it, build the response.
new_backend_predict_score ==
    /\ variant = "new_backend"
    /\ req.pc = "score"
    /\ \E read_ok \in BOOLEAN, rnd \in RandomStreams :
       \E file_hash \in IF read_ok /\ req.file_location \in DOMAIN disk
                        THEN {Md5Hex(disk[req.file_location])}
                        ELSE RandomDigests :
         LET score == new_backend_get_deterministic_score(file_hash)
         IN  /\ prediction_cache' = Written(prediction_cache, file_hash, score)
             /\ Reply(Response("predict", req.r, 200, "",
                               new_backend_body(score, req.is_video,
                                                req.file_location, rnd),
                               [NoObs EXCEPT !.raw_score = score,
                                             !.read_back = read_ok]))
    /\ UNCHANGED <<variant, model_file_exists, disk, uuids>>

\* Lines 188-196: GET /health.
new_backend_health_check ==
    /\ variant = "new_backend"
    /\ Arrives
    /\ \E uploads_directory \in BOOLEAN :
         Reply(Response("health", IdleReq.r, 200, "",
                 [NoBody EXCEPT
                    !.keys = {"status", "uploads_directory"},
                    !.status = "healthy",
                    !.uploads_directory = uploads_directory],
                 NoObs))
    /\ UNCHANGED <<variant, model_file_exists, disk, prediction_cache, uuids>>

new_backend_Next ==
    \/ new_backend_health_check
    \/ new_backend_upload_file
    \/ new_backend_predict_begin
    \/ new_backend_predict_save
    \/ new_backend_predict_score

(***************************************************************************)
(* main.py: the hybrid analysis of one picture.                            *)
(***************************************************************************)
\* extract_signal_features: the statistics the scores are computed from;
\* texture_contrast is min(1.0, contrast).
extract_signal_features(image) ==
    [std |-> Picture(image).std,
     noise_std |-> Picture(image).noise_std,
     edge_density |-> Picture(image).edge_density,
     texture_contrast |-> Min(Scale, Picture(image).contrast)]

\* A slip in the clamp: the value is passed through.
Clamp100_unclamped(x) == x

\* min(100, max(0, x))
Clamp100(x) == Min(Pts(100), Max(0, x))

\* A slip in the placeholder score: salted with the number of uuids drawn, so
\* that it changes from request to request.
main_cnn_score_salted(image) ==
    IF Picture(image).encodes
    THEN Pts((HashMod101(Md5Hex(Picture(image).jpeg)) + uuids) % 101)
    ELSE Pts(50)

\* Lines 211-240: the hash of the JPEG encoding, 50.0 when encoding fails.
main_cnn_score(image) ==
    IF Picture(image).encodes
    THEN main_get_deterministic_score(Picture(image).jpeg)
    ELSE Pts(50)

\* Lines 242-265: the five feature contributions of a picture.
main_feature_contributions(image) ==
    LET signal_features == extract_signal_features(image)
    IN  [cnn_score |-> main_cnn_score(image),
         fft_score |-> Clamp100(signal_features.std * 2),
         noise_score |-> Clamp100(signal_features.noise_std * 20),
         edge_score |-> Clamp100((Scale - signal_features.edge_density) * 100),
         texture_score |-> Clamp100(signal_features.texture_contrast * 50)]

\* A slip in the weights: the plain average of the five sub-scores.
main_final_score_even(f) ==
    (f.cnn_score + f.fft_score + f.noise_score + f.edge_score
       + f.texture_score) \div 5

\* Lines 267-274: 0.6 cnn + 0.1 fft + 0.1 noise + 0.1 edge + 0.1 texture.
main_final_score(f) ==
    (6 * f.cnn_score + f.fft_score + f.noise_score + f.edge_score
       + f.texture_score) \div 10

\* analyze_with_hybrid_approach(image): raised when extract_signal_features
\* raises, else the final score and the feature contributions.
analyze_with_hybrid_approach(image) ==
    IF Picture(image).raises
    THEN [raised |-> TRUE, score |-> 0, features |-> NoFeatures]
    ELSE [raised |-> FALSE,
          score |-> main_final_score(main_feature_contributions(image)),
          features |-> main_feature_contributions(image)]

(***************************************************************************)
(* main.py: POST /predict/.                                                *)
(***************************************************************************)
\* A slip in the default extension: ".mp4" for images too.
main_file_extension_mp4(filename, is_image) ==
    IF filename # <<>> THEN SplitExt(filename) ELSE DotMp4

\* os.path.splitext(file.filename)[1] if file.filename
\*     else ".jpg" if is_image else ".mp4"
main_file_extension(filename, is_image) ==
    IF filename # <<>> THEN SplitExt(filename)
    ELSE IF is_image THEN DotJpg ELSE DotMp4

\* Lines 328-340: the content-type check and the name of the file.
main_predict_begin ==
    /\ variant = "main"
    /\ Arrives
    /\ \E r \in Requests \cup MislabelledUploads :
         LET is_image == StartsWith(r.content_type, ImagePrefix)
             is_video == StartsWith(r.content_type, VideoPrefix)
         IN  IF ~(is_image \/ is_video)
             THEN /\ Reply(HTTPException("predict", r, 400,
                                         "File must be an image or video"))
                  /\ UNCHANGED uuids
             ELSE /\ uuids' = uuids + 1
                  /\ req' = [IdleReq EXCEPT
                               !.pc = "save", !.endpoint = "predict", !.r = r,
                               !.is_image = is_image, !.is_video = is_video,
                               !.file_location =
                                   Path(<<"uploads">>, "", uuids + 1,
                                        main_file_extension(r.filename,
                                                            is_image))]
                  /\ UNCHANGED responses
    /\ UNCHANGED <<variant, model_file_exists, disk, prediction_cache>>

\* A slip in the order: processing starts although nothing was written.
main_predict_save_skipped ==
    /\ variant = "main"
    /\ req.pc = "save"
    /\ req' = [req EXCEPT !.pc = "process"]
    /\ UNCHANGED <<variant, model_file_exists, disk, prediction_cache, uuids,
                   responses>>

\* Lines 342-361: read the upload and write it to file_location.
main_predict_save ==
    /\ variant = "main"
    /\ req.pc = "save"
    /\ \E write_ok \in BOOLEAN :
         IF write_ok
         THEN /\ disk' = Written(disk, req.file_location, req.r.data)
              /\ req' = [req EXCEPT !.pc = "process"]
              /\ UNCHANGED responses
         ELSE /\ Reply(HTTPException("predict", req.r, 500,
                                     "Error writing file to disk"))
              /\ UNCHANGED disk
    /\ UNCHANGED <<variant, model_file_exists, prediction_cache, uuids>>

\* Lines 363-382: whatever process_image or process_video raises, an
\* HTTPException included, is caught by `except Exception` and becomes a 500.
main_predict_result(resp) ==
    IF resp.status = 200 THEN resp
    ELSE [resp EXCEPT !.status = 500, !.detail = "Error processing file",
                      !.obs = [resp.obs EXCEPT !.raised = resp.status]]

\* process_image(file_path, filename, file_content): the response it returns,
\* or the HTTPException it raises.
process_image(d, file_location, r) ==
    IF file_location \notin DOMAIN d
    THEN HTTPException("predict", r, 404, "File not found")
    ELSE IF Size(d[file_location]) = 0
    THEN HTTPException("predict", r, 400, "File is empty")
    ELSE IF Imread(d[file_location]) = "None"
    \* the 400 raised at line 406 is caught at line 413
    THEN HTTPException("predict", r, 500, "Error reading image file")
    ELSE LET a == analyze_with_hybrid_approach(Imread(d[file_location]))
         IN  IF a.raised
             THEN HTTPException("predict", r, 500, "Error analyzing image")
             ELSE Response("predict", r, 200, "",
                    [NoBody EXCEPT
                       !.keys = {"score", "category", "is_deepfake",
                                 "file_path", "file_type",
                                 "feature_contributions"},
                       !.score = Round2(a.score),
                       !.category = get_result_category(a.score),
                       !.is_deepfake = a.score > Pts(50),
                       !.file_path = Url(file_location),
                       !.file_type = "image",
                       !.feature_contributions = RoundFeatures(a.features)],
                    [NoObs EXCEPT !.raw_score = a.score,
                                  !.features = a.features])

\* Lines 365-366: an image is processed in one call.
main_predict_image ==
    /\ variant = "main"
    /\ req.pc = "process"
    /\ req.is_image
    /\ Reply(main_predict_result(process_image(disk, req.file_location, req.r)))
    /\ UNCHANGED <<variant, model_file_exists, disk, prediction_cache, uuids>>

\* A slip in the loading: the model counts as loaded when its file exists.
model_loaded_when_file_exists == model_file_exists

\* main.py line 64: the model is never loaded.
model_loaded == FALSE

\* f"uploads/thumbnail_{filename.split('.')[0]}.jpg"
main_thumbnail_path(file_location) ==
    Path(<<"uploads">>, "thumbnail_", file_location.uuid, DotJpg)

NeutralFeatures ==
    [cnn_score |-> Pts(50), fft_score |-> Pts(50), noise_score |-> Pts(50),
     edge_score |-> Pts(50), texture_score |-> Pts(50)]

\* cap.read() at frame position pos (0-based) succeeds.
CanRead(frames, pos) == pos < Len(frames) /\ frames[pos + 1] # NoFrame

\* Lines 503-553: the response served from prediction_cache.  The frame
\* scores and four of the feature contributions are random around the
\* cached average; thumbnail_path is the relative path, or None.
main_cached_body(avg_score, frame_count, file_location, thumb_ok, rnd) ==
    LET \* range(k) is empty when k <= 0
        n == Max(0, Min(10, frame_count))
        frame_scores == [i \in 1..n |-> Jitter(avg_score, rnd[i], 10)]
        feature_contributions ==
          [cnn_score |-> avg_score,
           fft_score |-> Jitter(avg_score, rnd[n + 1], 20),
           noise_score |-> Jitter(avg_score, rnd[n + 2], 20),
           edge_score |-> Jitter(avg_score, rnd[n + 3], 20),
           texture_score |-> Jitter(avg_score, rnd[n + 4], 20)]
    IN  [NoBody EXCEPT
           !.keys = {"score", "category", "is_deepfake", "file_path",
                     "thumbnail_path", "frame_scores", "frames_analyzed",
                     "file_type", "feature_contributions"},
           !.score = Round2(avg_score),
           !.category = get_result_category(avg_score),
           !.is_deepfake = avg_score > Pts(50),
           !.file_path = Url(file_location),
           !.thumbnail_path = IF thumb_ok THEN main_thumbnail_path(file_location)
                              ELSE NoPath,
           !.frame_scores = MapRound2(frame_scores),
           !.frames_analyzed = Len(frame_scores),
           !.file_type = "video",
           !.feature_contributions = RoundFeatures(feature_contributions)]

\* A slip in the interval: one more than max(1, frame_count // 10).
main_frame_interval_wider(frame_count) == Max(1, frame_count \div 10) + 1

\* Lines 558-559: frames_to_analyze = min(10, frame_count) and
\* frame_interval = max(1, frame_count // frames_to_analyze)
main_frame_interval(frame_count) ==
    Max(1, frame_count \div Min(10, frame_count))

\* process_video, lines 450-564: the checks, the cache lookup and, on a
\* miss, the start of the frame loop.
main_process_video_open ==
    /\ variant = "main"
    /\ req.pc = "process"
    /\ ~req.is_image
    /\ LET on_disk == req.file_location \in DOMAIN disk
           data == IF on_disk THEN disk[req.file_location] ELSE ""
           cap == VideoCapture(data)
           file_hash == Md5Hex(req.r.data)
           raise(status, detail) ==
               /\ Reply(main_predict_result(
                            HTTPException("predict", req.r, status, detail)))
               /\ UNCHANGED <<disk, prediction_cache>>
       IN  IF ~on_disk THEN raise(404, "File not found")
           ELSE IF Size(data) = 0 THEN raise(400, "File is empty")
           \* the 400 raised at line 470 is caught at line 471
           ELSE IF ~cap.opened THEN raise(500, "Error opening video file")
           ELSE IF cap.frame_count = 0
           THEN raise(400, "Video file is empty or corrupted")
           ELSE IF ~model_loaded /\ file_hash \in DOMAIN prediction_cache
           THEN \E rnd \in RandomStreams :
                  LET thumb_ok == CanRead(cap.frames, 0)
                      avg_score == prediction_cache[file_hash]
                  IN  /\ disk' = IF thumb_ok
                                 THEN Written(disk,
                                        main_thumbnail_path(req.file_location),
                                        Picture(cap.frames[1]).jpeg)
                                 ELSE disk
                      /\ Reply(Response("predict", req.r, 200, "",
                                 main_cached_body(avg_score, cap.frame_count,
                                     req.file_location, thumb_ok, rnd),
                                 [NoObs EXCEPT !.raw_score = avg_score,
                                               !.frame_count = cap.frame_count,
                                               !.cached = TRUE]))
                      /\ UNCHANGED prediction_cache
           ELSE /\ req' = [req EXCEPT
                             !.pc = "loop",
                             !.file_hash = file_hash,
                             !.frames = cap.frames,
                             !.frame_count = cap.frame_count,
                             !.frames_to_analyze = Min(10, cap.frame_count),
                             !.frame_interval =
                                 main_frame_interval(cap.frame_count),
                             !.frame_index = 0]
                /\ UNCHANGED <<disk, prediction_cache, responses>>
    /\ UNCHANGED <<variant, model_file_exists, uuids>>

\* A slip in the fallback: a frame whose analysis raises counts as 0.0.
main_frame_result_zero(frame) ==
    LET a == analyze_with_hybrid_approach(frame)
    IN  IF a.raised
        THEN [score |-> 0, features |-> NoFeatures]
        ELSE [score |-> a.score, features |-> a.features]

\* Lines 598-616: the score and features a sampled frame adds to the lists:
\* those of the hybrid analysis, or the neutral 50.0 when it raises.
main_frame_result(frame) ==
    LET a == analyze_with_hybrid_approach(frame)
    IN  IF a.raised
        THEN [score |-> Pts(50), features |-> NeutralFeatures]
        ELSE [score |-> a.score, features |-> a.features]

\* Lines 568-622: one iteration of `while cap.isOpened()`.
main_process_video_loop ==
    /\ variant = "main"
    /\ req.pc = "loop"
    /\ IF ~CanRead(req.frames, req.frame_index)
       THEN \* ret is False: break
            /\ req' = [req EXCEPT !.pc = "average"]
            /\ UNCHANGED disk
       ELSE LET frame == req.frames[req.frame_index + 1]
                sampled == req.frame_index % req.frame_interval = 0
                res == main_frame_result(frame)
                scores == IF sampled THEN Append(req.frame_scores, res.score)
                          ELSE req.frame_scores
                enough == sampled /\ Len(scores) >= req.frames_to_analyze
            IN  /\ disk' = IF ~req.thumbnail_saved
                           THEN Written(disk,
                                        main_thumbnail_path(req.file_location),
                                        Picture(frame).jpeg)
                           ELSE disk
                /\ req' = [req EXCEPT
                             !.thumbnail_saved = TRUE,
                             !.reads = @ + 1,
                             !.frame_scores = scores,
                             !.feature_contributions_list =
                                 IF sampled THEN Append(@, res.features) ELSE @,
                             !.scored =
                                 IF sampled THEN Append(@, req.frame_index)
                                 ELSE @,
                             !.frame_index = IF enough THEN @ ELSE @ + 1,
                             !.pc = IF enough THEN "average" ELSE "loop"]
    /\ UNCHANGED <<variant, model_file_exists, prediction_cache, uuids,
                   responses>>

\* Lines 630-634: the mean of each feature over the analysed frames.
main_avg_features(l) ==
    [cnn_score |-> Mean([i \in 1..Len(l) |-> l[i].cnn_score]),
     fft_score |-> Mean([i \in 1..Len(l) |-> l[i].fft_score]),
     noise_score |-> Mean([i \in 1..Len(l) |-> l[i].noise_score]),
     edge_score |-> Mean([i \in 1..Len(l) |-> l[i].edge_score]),
     texture_score |-> Mean([i \in 1..Len(l) |-> l[i].texture_score])]

\* A slip in the cache: the average is never remembered.
main_cache_store_never(cache, file_hash, avg_score) == cache

\* Lines 645-647: prediction_cache[file_hash] = avg_score
main_cache_store(cache, file_hash, avg_score) ==
    Written(cache, file_hash, avg_score)

\* Lines 624-672: the averages, the cache entry and the response.
main_process_video_finish ==
    /\ variant = "main"
    /\ req.pc = "average"
    /\ LET scored_any == req.frame_scores # <<>>
           avg_score == IF scored_any THEN Mean(req.frame_scores) ELSE Pts(50)
           avg_features == IF scored_any
                           THEN main_avg_features(req.feature_contributions_list)
                           ELSE NeutralFeatures
       IN  /\ prediction_cache' =
                 IF scored_any
                 THEN main_cache_store(prediction_cache, req.file_hash,
                                       avg_score)
                 ELSE prediction_cache
           /\ Reply(Response("predict", req.r, 200, "",
                      [NoBody EXCEPT
                         !.keys = {"score", "category", "is_deepfake",
                                   "file_path", "thumbnail_path",
                                   "frame_scores", "frames_analyzed",
                                   "file_type", "feature_contributions"},
                         !.score = Round2(avg_score),
                         !.category = get_result_category(avg_score),
                         !.is_deepfake = avg_score > Pts(50),
                         !.file_path = Url(req.file_location),
                         !.thumbnail_path =
                             IF req.thumbnail_saved
                             THEN Url(main_thumbnail_path(req.file_location))
                             ELSE NoPath,
                         !.frame_scores = MapRound2(req.frame_scores),
                         !.frames_analyzed = Len(req.frame_scores),
                         !.file_type = "video",
                         !.feature_contributions = RoundFeatures(avg_features)],
                      [NoObs EXCEPT !.raw_score = avg_score,
                                    !.scored = req.scored,
                                    !.reads = req.reads,
                                    !.frame_count = req.frame_count,
                                    !.frame_scores = req.frame_scores,
                                    !.features = avg_features]))
    /\ UNCHANGED <<variant, model_file_exists, disk, uuids>>

\* Lines 686-696: GET /health.  uploads_directory is
\* os.path.exists("uploads") and os.access("uploads", os.W_OK).
main_health_check ==
    /\ variant = "main"
    /\ Arrives
    /\ \E uploads_directory \in BOOLEAN :
         Reply(Response("health", IdleReq.r, 200, "",
                 [NoBody EXCEPT
                    !.keys = {"status", "model_loaded", "model_file_exists",
                              "uploads_directory"},
                    !.status = "healthy",
                    !.model_loaded = model_loaded,
                    !.model_file_exists = model_file_exists,
                    !.uploads_directory = uploads_directory],
                 NoObs))
    /\ UNCHANGED <<variant, model_file_exists, disk, prediction_cache, uuids>>

main_Next ==
    \/ main_health_check
    \/ main_upload_file
    \/ main_predict_begin
    \/ main_predict_save
    \/ main_predict_image
    \/ main_process_video_open
    \/ main_process_video_loop
    \/ main_process_video_finish

(***************************************************************************)
(* backend/app: the response model and the detector.                       *)
(***************************************************************************)
\* response_models.py: the fields of AnalysisResult without a default.  The
\* names that start with an underscore are private attributes, not fields.
AnalysisResult_required == {"is_deepfake", "message", "file_path", "file_type"}

\* AnalysisResult(**kwargs) validates: every required field is given.
AnalysisResult_validates(kwargs) == AnalysisResult_required \subseteq kwargs

\* The keyword arguments of AnalysisResult(...) in _analyze_image.
analyze_image_kwargs ==
    {"score", "category", "is_deepfake", "file_path", "file_type",
     "feature_contributions"}

\* The keyword arguments of AnalysisResult(...) in _analyze_video.
analyze_video_kwargs ==
    {"score", "category", "is_deepfake", "file_path", "file_type",
     "frame_scores", "frames_analyzed", "feature_contributions"}

\* _simulate_cnn_detection .. _simulate_texture_analysis: offset + h * range
\* with h = hash(...) % 1000 / 1000; 1.0 is 100 * Scale.
simulate_features(image) ==
    LET h == Picture(image).pyhash
    IN  [cnn_score |-> 300000 + h.cnn * 500,
         fft_score |-> 200000 + h.fft * 700,
         noise_score |-> 100000 + h.noise * 600,
         edge_score |-> 200000 + h.edge * 600,
         texture_score |-> 300000 + h.texture * 600]

\* min(max((0.4 cnn + 0.2 fft + 0.15 noise + 0.15 edge + 0.1 texture) * 100,
\*         0), 100)
app_final_score(f) ==
    Clamp100((40 * f.cnn_score + 20 * f.fft_score + 15 * f.noise_score
                + 15 * f.edge_score + 10 * f.texture_score) \div 100)

\* The category of backend/app (lines 179-184 and 388-393).
app_category(score) ==
    IF score < Pts(30) THEN "Likely Authentic"
    ELSE IF score < Pts(70) THEN "Possibly Manipulated"
    ELSE "Likely Deepfake"

\* A slip in the check: every extension passes as an image.
is_valid_image_any(extension) == TRUE

\* is_valid_image(extension), is_valid_video(extension)
is_valid_image(extension) == Lower(extension) \in {DotJpg, DotJpeg, DotPng}

is_valid_video(extension) == Lower(extension) \in {DotMp4, DotMov, DotAvi}

\* file_utils.py lines 18-19
MAX_IMAGE_SIZE == 20 * 1024 * 1024

MAX_VIDEO_SIZE == 100 * 1024 * 1024

\* A slip in the comparison: a file of exactly the maximum size is refused.
validate_file_size_raises_at_limit(size, file_type) ==
    \/ file_type = "image" /\ size >= MAX_IMAGE_SIZE
    \/ file_type = "video" /\ size >= MAX_VIDEO_SIZE

\* validate_file_size(file_path, file_type) raises ValueError.
validate_file_size_raises(size, file_type) ==
    \/ file_type = "image" /\ size > MAX_IMAGE_SIZE
    \/ file_type = "video" /\ size > MAX_VIDEO_SIZE

app_file_type(q) == IF q.is_image THEN "image" ELSE "video"

(***************************************************************************)
(* backend/app: POST /api/predict/.                                        *)
(***************************************************************************)
\* prediction.py lines 143-171: the file id, the filename and extension
\* checks, the path the upload is saved to.
app_predict_begin ==
    /\ variant = "app"
    /\ Arrives
    /\ uuids' = uuids + 1
    /\ \E r \in Requests \cup LargeUploads \cup LongUploads :
         LET file_extension == Lower(SplitExt(r.filename))
             image == is_valid_image(file_extension)
             video == is_valid_video(file_extension)
         IN  IF r.filename = <<>>
             THEN Reply(HTTPException("predict", r, 400, "No filename provided"))
             ELSE IF ~(image \/ video)
             THEN Reply(HTTPException("predict", r, 400, "Unsupported file type"))
             ELSE /\ req' = [IdleReq EXCEPT
                               !.pc = "save", !.endpoint = "predict", !.r = r,
                               !.is_image = image, !.is_video = ~image,
                               !.file_location =
                                   Path(IF image THEN <<"uploads", "images">>
                                        ELSE <<"uploads", "videos">>,
                                        "", uuids + 1, file_extension)]
                  /\ UNCHANGED responses
    /\ UNCHANGED <<variant, model_file_exists, disk, prediction_cache>>

\* Lines 173-242: the checks on the content, the write, the checks on the
\* saved file.
app_predict_save ==
    /\ variant = "app"
    /\ req.pc = "save"
    /\ LET content == req.r.data
           file_type == app_file_type(req)
           raise(status, detail) ==
               /\ Reply(HTTPException("predict", req.r, status, detail))
               /\ UNCHANGED disk
       IN  IF Size(content) = 0 THEN raise(400, "Empty file content")
           ELSE IF file_type = "image" /\ Size(content) > 20 * 1024 * 1024
           THEN raise(400, "Image file too large. Maximum size is 20MB.")
           ELSE IF file_type = "video" /\ Size(content) > 100 * 1024 * 1024
           THEN raise(400, "Video file too large. Maximum size is 100MB.")
           ELSE \E write_ok \in BOOLEAN :
                  IF ~write_ok THEN raise(500, "Failed to save file")
                  ELSE IF validate_file_size_raises(Size(content), file_type)
                  THEN \* written, found too large, removed again
                       raise(400, "size exceeds maximum allowed")
                  ELSE /\ disk' = Written(disk, req.file_location, content)
                       /\ req' = [req EXCEPT
                                    !.pc = IF req.is_video THEN "thumbnail"
                                           ELSE "analyze"]
                       /\ UNCHANGED responses
    /\ UNCHANGED <<variant, model_file_exists, prediction_cache, uuids>>

\* _create_thumbnail_sync: the frame the thumbnail is made of (the middle
\* frame, else the first), or "None" when the video yields none.
create_thumbnail_frame(data) ==
    LET cap == VideoCapture(data)
        middle_frame == Max(0, cap.frame_count \div 2)
    IN  IF ~cap.opened \/ cap.frame_count <= 0 THEN "None"
        ELSE IF CanRead(cap.frames, middle_frame)
        THEN cap.frames[middle_frame + 1]
        ELSE IF CanRead(cap.frames, 0) THEN cap.frames[1]
        ELSE "None"

\* f"uploads/thumbnails/{file_id}.jpg"
app_thumbnail_full_path(file_location) ==
    Path(<<"uploads", "thumbnails">>, "", file_location.uuid, DotJpg)

\* Lines 244-266: the thumbnail of a video; a failure leaves thumbnail_path
\* None and the request goes on.
app_predict_thumbnail ==
    /\ variant = "app"
    /\ req.pc = "thumbnail"
    /\ LET frame == create_thumbnail_frame(disk[req.file_location])
           full == app_thumbnail_full_path(req.file_location)
       IN  \E imwrite_ok \in BOOLEAN :
             IF frame # "None" /\ imwrite_ok
             THEN /\ disk' = Written(disk, full, Picture(frame).jpeg)
                  /\ req' = [req EXCEPT !.pc = "analyze",
                                        !.thumbnail_path = Url(full)]
             ELSE /\ disk' = disk
                  /\ req' = [req EXCEPT !.pc = "analyze",
                                        !.thumbnail_path = NoPath]
    /\ UNCHANGED <<variant, model_file_exists, prediction_cache, uuids,
                   responses>>

\* f"uploads{thumbnail_path}"
app_cleanup_thumbnail_path(thumbnail_path) ==
    [thumbnail_path EXCEPT !.dir = <<"uploads">> \o Tail(thumbnail_path.dir)]

\* Lines 285-311: the analysis raised; the saved file and the thumbnail are
\* removed (each when os.path.exists finds it) and the request ends with 500.
app_analysis_failed(obs) ==
    LET without_file ==
          IF req.file_location \in DOMAIN disk
          THEN Removed(disk, req.file_location) ELSE disk
        thumbnail_full_path == app_cleanup_thumbnail_path(req.thumbnail_path)
    IN  /\ disk' = IF /\ req.is_video
                      /\ req.thumbnail_path # NoPath
                      /\ thumbnail_full_path \in DOMAIN without_file
                   THEN Removed(without_file, thumbnail_full_path)
                   ELSE without_file
        /\ Reply(Response("predict", req.r, 500, "Failed to analyze file",
                          NoBody, obs))

\* Lines 271-284: the analysis returned; the router adds the file metadata
\* and the response carries the fields of AnalysisResult.
app_analysis_returned(obs) ==
    /\ disk' = disk
    /\ Reply(Response("predict", req.r, 200, "",
               [NoBody EXCEPT
                  !.keys = {"is_deepfake", "message", "file_path", "file_type",
                            "thumbnail_path"},
                  !.is_deepfake = obs.raw_score > Pts(50),
                  !.file_path = Url(req.file_location),
                  !.file_type = app_file_type(req),
                  !.thumbnail_path = req.thumbnail_path],
               obs))

\* detector.analyze for an image (lines 43-61 and _analyze_image): load the
\* image, score it, build the AnalysisResult.
app_predict_analyze_image ==
    /\ variant = "app"
    /\ req.pc = "analyze"
    /\ req.is_image
    /\ LET image == IF req.file_location \in DOMAIN disk
                    THEN Imread(disk[req.file_location]) ELSE "None"
           features == simulate_features(image)
           obs == [NoObs EXCEPT !.raw_score = app_final_score(features),
                                !.features = features]
       IN  IF image = "None" \/ Picture(image).raises
           THEN app_analysis_failed(NoObs)
           ELSE IF AnalysisResult_validates(analyze_image_kwargs)
           THEN app_analysis_returned(obs)
           ELSE app_analysis_failed(obs)
    /\ UNCHANGED <<variant, model_file_exists, prediction_cache, uuids>>

\* The readable frames at the start of a stream, at most `limit` of them:
\* what the copy loop of lines 250-259 writes to the temporary file.
RECURSIVE CopiedFrames(_, _)
CopiedFrames(frames, limit) ==
    IF limit = 0 \/ frames = <<>> \/ Head(frames) = NoFrame THEN <<>>
    ELSE <<Head(frames)>> \o CopiedFrames(Tail(frames), limit - 1)

\* _analyze_video line 258
MAX_FRAMES_COPIED == 100

\* _analyze_video line 301
max_frames_to_analyze == 10

\* Lines 304-308: 1 for at most ten frames, else frame_count // 10.
app_frame_interval(frame_count) ==
    IF frame_count <= max_frames_to_analyze THEN 1
    ELSE frame_count \div max_frames_to_analyze

\* _analyze_video lines 219-318: the capture that is analysed (the re-encoded
\* copy, or the original file when the copy cannot be made or opened), the
\* frame count, the number of frames to analyse and the interval.
app_analyze_video_open ==
    /\ variant = "app"
    /\ req.pc = "analyze"
    /\ req.is_video
    /\ LET original == VideoCapture(disk[req.file_location])
           copied == CopiedFrames(original.frames, MAX_FRAMES_COPIED)
       IN  \E copy_ok \in BOOLEAN :
             LET use_copy == original.opened /\ copied # <<>> /\ copy_ok
                 frames == IF use_copy THEN copied ELSE original.frames
                 frame_count == IF use_copy THEN Len(copied)
                                ELSE original.frame_count
             IN  IF ~original.opened \/ frame_count <= 0
                 THEN app_analysis_failed(NoObs)
                 ELSE /\ req' = [req EXCEPT
                                   !.pc = "app_loop",
                                   !.frames = frames,
                                   !.frame_count = frame_count,
                                   !.frames_to_analyze =
                                       Min(frame_count, max_frames_to_analyze),
                                   !.frame_interval =
                                       app_frame_interval(frame_count),
                                   !.frame_index = 0]
                      /\ UNCHANGED <<disk, responses>>
    /\ UNCHANGED <<variant, model_file_exists, prediction_cache, uuids>>

\* Lines 321-371: one iteration of `for i in range(frames_to_analyze)`; a
\* frame that cannot be read or whose scoring raises is skipped.
app_analyze_video_loop ==
    /\ variant = "app"
    /\ req.pc = "app_loop"
    /\ req.frame_index < req.frames_to_analyze
    /\ LET frame_pos == req.frame_index * req.frame_interval
           ret == CanRead(req.frames, frame_pos)
           frame == req.frames[frame_pos + 1]
           scored == ret /\ ~Picture(frame).raises
       IN  req' = [req EXCEPT
                     !.frame_index = @ + 1,
                     !.reads = IF ret THEN @ + 1 ELSE @,
                     !.frame_scores =
                         IF scored
                         THEN Append(@, app_final_score(simulate_features(frame)))
                         ELSE @,
                     !.feature_contributions_list =
                         IF scored THEN Append(@, simulate_features(frame))
                         ELSE @,
                     !.scored = IF scored THEN Append(@, frame_pos) ELSE @]
    /\ UNCHANGED <<variant, model_file_exists, disk, prediction_cache, uuids,
                   responses>>

\* Lines 373-417: the averages and the AnalysisResult of a video.
app_analyze_video_finish ==
    /\ variant = "app"
    /\ req.pc = "app_loop"
    /\ req.frame_index = req.frames_to_analyze
    /\ IF req.frame_scores = <<>>
       THEN app_analysis_failed(NoObs)
       ELSE LET obs == [NoObs EXCEPT
                          !.raw_score = Mean(req.frame_scores),
                          !.frame_scores = req.frame_scores,
                          !.features =
                              main_avg_features(req.feature_contributions_list),
                          !.scored = req.scored,
                          !.reads = req.reads,
                          !.frame_count = req.frame_count]
            IN  IF AnalysisResult_validates(analyze_video_kwargs)
                THEN app_analysis_returned(obs)
                ELSE app_analysis_failed(obs)
    /\ UNCHANGED <<variant, model_file_exists, prediction_cache, uuids>>

app_Next ==
    \/ app_predict_begin
    \/ app_predict_save
    \/ app_predict_thumbnail
    \/ app_predict_analyze_image
    \/ app_analyze_video_open
    \/ app_analyze_video_loop
    \/ app_analyze_video_finish

Next ==
    \/ main_Next
    \/ new_backend_Next
    \/ app_Next

Spec == Init /\ [][Next]_vars

(***************************************************************************)
(* Properties.                                                             *)
(***************************************************************************)
\* The responses sent so far.
Sent == {responses[i] : i \in 1..Len(responses)}

\* The 200 responses of POST /predict/.
Predicted == {x \in Sent : x.endpoint = "predict" /\ x.status = 200}

\* int(first 8 hex digits, 16) mod 101, digit by digit: the value is
\* ((...(d1 * 16 + d2) * 16 + ...) * 16 + d8) mod 101.
RECURSIVE HornerMod101(_, _)
HornerMod101(digits, acc) ==
    IF digits = <<>> THEN acc
    ELSE HornerMod101(Tail(digits), (acc * 16 + HexDigit(Head(digits))) % 101)

First8Mod101(data) == HornerMod101(SubSeq(Md5Hex(data), 1, 8), 0)

\* The responses in which a deterministic score of the bytes `data` shows:
\* new_backend.py scores the digest of the saved file, main.py scores the
\* JPEG encoding of the decoded image (the cnn_score of an image response).
DeterministicScores(data) ==
    { x.obs.raw_score : x \in { y \in Predicted :
          /\ variant = "new_backend"
          /\ y.obs.read_back
          /\ y.r.data = data } }
    \cup
    { x.body.feature_contributions.cnn_score : x \in { y \in Predicted :
          /\ variant = "main"
          /\ y.body.file_type = "image"
          /\ Picture(Imread(y.r.data)).encodes
          /\ Picture(Imread(y.r.data)).jpeg = data } }

ScoredBytes ==
    {"", "Test image content", "photoA", "photoB", "clip3", "clip25",
     "clipBroken", "clipBad", "clip0", "clipDead", "clipNeg", "jpegA", "jpegB",
     "jpegC"}

\* C1: the deterministic score of a byte string b is
\* int(first 8 hex digits of MD5(b), 16) mod 101, a whole number of points
\* in 0..100, and every call on the same bytes returns the same score
\* (main.py on the bytes, new_backend.py on the digest of the saved file).
\* MD5("") gives 77 and MD5("Test image content") gives 53.
C1_DeterministicScore ==
    /\ \A data \in ScoredBytes : \A sc \in DeterministicScores(data) :
         /\ sc = Pts(First8Mod101(data))
         /\ sc % Scale = 0
         /\ 0 <= sc /\ sc <= Pts(100)
    /\ \A sc \in DeterministicScores("") : sc = Pts(77)
    /\ \A sc \in DeterministicScores("Test image content") : sc = Pts(53)
    /\ \A data \in ScoredBytes : Cardinality(DeterministicScores(data)) <= 1

\* C1 happens: new_backend.py has scored the same bytes twice (the plain-text
\* test file, score 53).
C1_Witness ==
    /\ variant = "new_backend"
    /\ Len(responses) = 2
    /\ \A i \in 1..2 :
         /\ responses[i] \in Predicted
         /\ responses[i].obs.read_back
         /\ responses[i].r.data = "Test image content"
         /\ responses[i].obs.raw_score = Pts(53)

\* The file a URL path names below the working directory.
FileOf(url) == [url EXCEPT !.dir = Tail(url.dir)]

\* The responses of POST /predict/ (backend/app: POST /api/predict/),
\* whatever their status.
Answered == {x \in Sent : x.endpoint = "predict"}

\* The detector of backend/app can decode the upload: an image cv2.imread
\* loads and the detector scores, or a video all of whose frames are read
\* and scored.
Decodable(r) ==
    LET cap == VideoCapture(r.data)
    IN  \/ /\ is_valid_image(SplitExt(r.filename))
           /\ Imread(r.data) # "None"
           /\ ~Picture(Imread(r.data)).raises
        \/ /\ is_valid_video(SplitExt(r.filename))
           /\ cap.opened
           /\ cap.frame_count >= 1
           /\ Len(cap.frames) = cap.frame_count
           /\ \A i \in 1..Len(cap.frames) :
                cap.frames[i] # NoFrame /\ ~Picture(cap.frames[i]).raises

\* A non-empty file with a supported extension, within the size limit, that
\* the detector can decode.
Analysable(r) ==
    /\ r.filename # <<>>
    /\ Size(r.data) > 0
    /\ Decodable(r)
    /\ IF is_valid_image(SplitExt(r.filename))
       THEN Size(r.data) <= MAX_IMAGE_SIZE
       ELSE Size(r.data) <= MAX_VIDEO_SIZE

AnalysisDetails ==
    {"score", "category", "is_deepfake", "file_path", "file_type",
     "feature_contributions"}

\* C2: in backend/app, POST /api/predict/ with a non-empty file that has a
\* supported extension, is within the size limit and can be decoded (and that
\* could be written to disk) is answered with 200 and the analysis result:
\* the score the detector computed, category, is_deepfake, file_path,
\* file_type and feature contributions; it never ends in the 500
\* 'Failed to analyze file'.
C2_AnalysisReturned ==
    variant = "app" =>
      \A x \in Answered :
        (Analysable(x.r) /\ x.detail # "Failed to save file") =>
          /\ ~(x.status = 500 /\ x.detail = "Failed to analyze file")
          /\ x.status = 200
          /\ AnalysisDetails \subseteq x.body.keys
          /\ x.body.score = Round2(x.obs.raw_score)

\* The positions of a handler after the upload was saved: scoring (and, in
\* backend/app, the thumbnail that precedes it).
ScoringSteps ==
    {"score", "process", "loop", "average", "thumbnail", "analyze", "app_loop"}

\* The upload of request q is a file of d and holds the uploaded bytes.
Saved(d, q) ==
    /\ q.file_location \in DOMAIN d
    /\ d[q.file_location] = q.r.data

\* C3: in every variant a request is saved, then scored, then answered.  While
\* a request is being scored its file is on disk with the uploaded bytes; a
\* scoring step is entered from the save step only, by the step that
\* completes the write; and a 200 response of predict is sent from a scoring
\* step, for the file that was written.
C3_SaveScoreRespond ==
    /\ [](req.pc \in ScoringSteps => Saved(disk, req))
    /\ [][ /\ (req'.pc \in ScoringSteps /\ req.pc \notin ScoringSteps) =>
                (req.pc = "save" /\ Saved(disk', req'))
           /\ (/\ Len(responses') > Len(responses)
               /\ responses'[Len(responses')].endpoint = "predict"
               /\ responses'[Len(responses')].status = 200) =>
                (/\ req.pc \in ScoringSteps
                 /\ Saved(disk, req)
                 /\ FileOf(responses'[Len(responses')].body.file_path)
                      = req.file_location
                 /\ Saved(disk', req)) ]_vars

\* C3 happens: main.py has answered one upload with 200 and is in the frame
\* loop of the next one, whose file is on disk.
C3_Witness ==
    /\ variant = "main"
    /\ Predicted # {}
    /\ req.pc = "loop"
    /\ Len(req.frame_scores) >= 1
    /\ Saved(disk, req)

\* What two roundings to 2 decimals (of the score and of what it is compared
\* with) and the truncations of the fixed point may add up to.
RoundingSlack == 2 * (Scale \div 200) + 10

\* 10 * (0.6 cnn + 0.1 fft + 0.1 noise + 0.1 edge + 0.1 texture)
MainWeighted(f) ==
    6 * f.cnn_score + f.fft_score + f.noise_score + f.edge_score
      + f.texture_score

\* 100 * (0.4 cnn + 0.2 fft + 0.15 noise + 0.15 edge + 0.1 texture)
AppWeighted(f) ==
    40 * f.cnn_score + 20 * f.fft_score + 15 * f.noise_score
      + 15 * f.edge_score + 10 * f.texture_score

\* The score of a body is the weighted sum of its feature contributions, with
\* the weights of main.py or with those of backend/app.
IsWeightedSum(b) ==
    \/ Abs(10 * b.score - MainWeighted(b.feature_contributions))
         <= 10 * RoundingSlack
    \/ Abs(100 * b.score - AppWeighted(b.feature_contributions))
         <= 100 * RoundingSlack

\* The analyses the detector of backend/app completed (score and feature
\* contributions computed), whatever became of the request.
AppAnalysed ==
    {x \in Answered : variant = "app" /\ x.obs.features # NoFeatures}

\* C4 as stated: in every image and video response of every variant the
\* score is the fixed-weight combination of the five feature contributions
\* of that response (0.6/0.1/0.1/0.1/0.1 in main.py, 0.4/0.2/0.15/0.15/0.1
\* times 100 in backend/app), up to the rounding to 2 decimals.
C4_ScoreIsWeightedSum ==
    /\ variant = "main" =>
         \A x \in Predicted :
           Abs(10 * x.body.score - MainWeighted(x.body.feature_contributions))
             <= 10 * RoundingSlack
    /\ variant = "new_backend" => \A x \in Predicted : IsWeightedSum(x.body)
    /\ \A x \in AppAnalysed :
         Abs(100 * x.obs.raw_score - AppWeighted(x.obs.features))
           <= 100 * RoundingSlack

\* cnn_score is the score itself and each of the other four contributions is
\* within 10 points of it.
AroundScore(b) ==
    /\ b.feature_contributions.cnn_score = b.score
    /\ \A v \in {b.feature_contributions.fft_score,
                 b.feature_contributions.noise_score,
                 b.feature_contributions.edge_score,
                 b.feature_contributions.texture_score} :
         /\ Abs(v - b.score) <= Pts(10) + RoundingSlack
         /\ 0 <= v /\ v <= Pts(100)

\* C4, amended: the score is the weighted sum of the reported contributions
\* in main.py's image responses and in its video responses computed by the
\* frame loop (weights 0.6/0.1/0.1/0.1/0.1), and in what the detector of
\* backend/app computes (weights 0.4/0.2/0.15/0.15/0.1 times 100).  In
\* new_backend.py and in main.py's responses served from prediction_cache
\* the contributions are derived from the score: cnn_score is the score and
\* the other four are the score plus a random offset of at most 10.
C4_WeightedSumWhereComputed ==
    /\ variant = "main" =>
         \A x \in Predicted :
           IF x.obs.cached
           THEN AroundScore(x.body)
           ELSE Abs(10 * x.body.score
                      - MainWeighted(x.body.feature_contributions))
                  <= 10 * RoundingSlack
    /\ variant = "new_backend" => \A x \in Predicted : AroundScore(x.body)
    /\ \A x \in AppAnalysed :
         Abs(100 * x.obs.raw_score - AppWeighted(x.obs.features))
           <= 100 * RoundingSlack

\* C4 happens: main.py has answered a video from the frame loop (the score is
\* the weighted sum) and the same video from prediction_cache (it is not).
C4_Witness ==
    /\ variant = "main"
    /\ \E x, y \in Predicted :
         /\ x.r = y.r
         /\ ~x.obs.cached
         /\ Len(x.obs.scored) >= 2
         /\ Abs(10 * x.body.score - MainWeighted(x.body.feature_contributions))
              <= 10 * RoundingSlack
         /\ y.obs.cached
         /\ ~IsWeightedSum(y.body)

\* Two responses agree on everything the analysis reports.
SameAnswer(x, y) ==
    /\ x.body.score = y.body.score
    /\ x.body.category = y.body.category
    /\ x.body.is_deepfake = y.body.is_deepfake
    /\ x.body.feature_contributions = y.body.feature_contributions
    /\ x.body.frame_scores = y.body.frame_scores

\* Two responses agree on the score and on what follows from it.
SameVerdict(x, y) ==
    /\ x.body.score = y.body.score
    /\ x.body.category = y.body.category
    /\ x.body.is_deepfake = y.body.is_deepfake

LoopAnswers ==
    IF variant = "main"
    THEN {x \in Predicted : x.body.file_type = "video" /\ ~x.obs.cached}
    ELSE IF variant = "app"
    THEN {x \in Answered : x.obs.frame_count > 0}
    ELSE {}

\* The positions 0, s, 2s, ... up to position n.
Multiples(s, n) == {k * s : k \in 0..n}

\* C6 as stated: the scored frames of a video with frame_count >= 1 are at
\* positions 0, s, 2s, ... with s = frame_count // 10, in main.py and in
\* backend/app.
C6_StrideIsTenth ==
    \A x \in LoopAnswers :
      x.obs.frame_count >= 1 =>
        \A i \in 1..Len(x.obs.scored) :
          x.obs.scored[i]
            \in Multiples(x.obs.frame_count \div 10, x.obs.frame_count)

\* max(1, frame_count // 10)
Stride(frame_count) ==
    IF frame_count \div 10 >= 1 THEN frame_count \div 10 ELSE 1

\* The positions a loop over a capture of frame_count frames samples: the
\* first min(10, frame_count) multiples of the stride (main.py's loop ends
\* once len(frame_scores) >= frames_to_analyze, so after one frame when the
\* reported frame_count is negative).
SampledPositions(frame_count) ==
    {k * Stride(frame_count) : k \in 0..(Max(1, Min(10, frame_count)) - 1)}

\* C6, amended: for a video with frame_count >= 1 the stride is
\* s = max(1, frame_count // 10), where frame_count is that of the capture the
\* loop reads.  main.py scores the positions
\* 0, s, 2s, ... one after another, at most min(10, frame_count) of them;
\* backend/app scores positions among the first min(10, frame_count)
\* multiples of s, in increasing order.
C6_StrideAtLeastOne ==
    \A x \in LoopAnswers :
      x.obs.frame_count >= 1 =>
        /\ Len(x.obs.scored) <= Min(10, x.obs.frame_count)
        /\ \A i \in 1..Len(x.obs.scored) :
             /\ x.obs.scored[i] \in SampledPositions(x.obs.frame_count)
             /\ variant = "main" =>
                  x.obs.scored[i] = (i - 1) * Stride(x.obs.frame_count)
             /\ i > 1 => x.obs.scored[i - 1] < x.obs.scored[i]

\* C6 happens: a video of 3 frames was scored at positions 0, 1, 2 (its
\* frame_count // 10 is 0) and one of 25 frames at 0, 2, 4, ...
C6_Witness ==
    /\ \E x \in LoopAnswers :
         x.obs.frame_count = 3 /\ x.obs.scored = <<0, 1, 2>>
    /\ \E x \in LoopAnswers :
         /\ x.obs.frame_count = 25
         /\ x.obs.scored = [i \in 1..10 |-> 2 * (i - 1)]

\* score is the arithmetic mean of the frame scores fs, up to slack.
IsMeanOf(score, fs, slack) ==
    /\ fs # <<>>
    /\ Abs(Len(fs) * score - SumSeq(fs)) <= Len(fs) * slack

\* C7 as stated: in every video response the score is the arithmetic mean of
\* the frame_scores of that response, up to the rounding to 2 decimals, in
\* main.py (first and repeated uploads), new_backend.py and backend/app.
C7_ScoreIsMeanOfFrames ==
    /\ \A x \in Predicted :
         x.body.file_type = "video" =>
           IsMeanOf(x.body.score, x.body.frame_scores, RoundingSlack)
    /\ \A x \in AppAnalysed :
         x.obs.frame_count > 0 =>
           IsMeanOf(x.obs.raw_score, x.obs.frame_scores, RoundingSlack)

\* Every frame score is within 5 points of the score.
FramesAroundScore(b) ==
    \A i \in 1..Len(b.frame_scores) :
      /\ Abs(b.frame_scores[i] - b.score) <= Pts(5) + RoundingSlack
      /\ 0 <= b.frame_scores[i] /\ b.frame_scores[i] <= Pts(100)

\* C7, amended: the score is the mean of the frame scores in main.py's video
\* responses computed by the frame loop when a frame was scored, and in what
\* the detector of backend/app computes.  When main.py's loop scored no
\* frame the score is 50.0 and frame_scores is empty.  In new_backend.py and
\* in main.py's responses served from prediction_cache the frame scores are
\* derived from the score: 10 (main.py: min(10, frame_count), none when the
\* reported frame_count is negative) values, each the score plus a random
\* offset of at most 5.
C7_MeanOnTheFrameLoop ==
    /\ variant = "main" =>
         \A x \in Predicted :
           x.body.file_type = "video" =>
             IF x.obs.cached
             THEN /\ FramesAroundScore(x.body)
                  /\ Len(x.body.frame_scores)
                       = Max(0, Min(10, x.obs.frame_count))
             ELSE IF x.body.frame_scores = <<>>
             THEN x.body.score = Pts(50) /\ x.body.frames_analyzed = 0
             ELSE IsMeanOf(x.body.score, x.body.frame_scores, RoundingSlack)
    /\ variant = "new_backend" =>
         \A x \in Predicted :
           x.body.file_type = "video" =>
             /\ FramesAroundScore(x.body)
             /\ Len(x.body.frame_scores) = 10
    /\ \A x \in AppAnalysed :
         x.obs.frame_count > 0 =>
           IsMeanOf(x.obs.raw_score, x.obs.frame_scores, RoundingSlack)

\* C7 happens: main.py has answered a video from prediction_cache with frame
\* scores whose mean is not the score, after it answered the same video from
\* the frame loop with the mean of three different frame scores.
C7_Witness ==
    /\ variant = "main"
    /\ \E x, y \in Predicted :
         /\ x.r = y.r
         /\ ~x.obs.cached
         /\ Len(x.body.frame_scores) = 3
         /\ x.body.frame_scores[1] # x.body.frame_scores[2]
         /\ IsMeanOf(x.body.score, x.body.frame_scores, RoundingSlack)
         /\ y.obs.cached
         /\ ~IsMeanOf(y.body.score, y.body.frame_scores, RoundingSlack)

\* The frames of the capture a loop read: main.py reads the uploaded file,
\* backend/app its re-encoded copy or, failing that, the uploaded file.
AnalysedFrames(x) ==
    LET cap == VideoCapture(x.r.data)
    IN  IF variant = "main" \/ x.obs.frame_count = cap.frame_count
        THEN cap.frames
        ELSE CopiedFrames(cap.frames, MAX_FRAMES_COPIED)

\* The frame at position p is read and its scoring does not raise.
Scorable(frames, p) ==
    /\ p < Len(frames)
    /\ frames[p + 1] # NoFrame
    /\ ~Picture(frames[p + 1]).raises

Positions(scored) == {scored[i] : i \in 1..Len(scored)}

\* The sampled frames that are read and scored without raising are scored,
\* and no other.
SkipsAndContinues(x) ==
    LET frames == AnalysedFrames(x)
    IN  /\ Positions(x.obs.scored)
             = {p \in SampledPositions(x.obs.frame_count) :
                  Scorable(frames, p)}
        /\ Len(x.obs.frame_scores) = Len(x.obs.scored)

\* C8 as stated: in the frame loop of main.py and of backend/app a sampled
\* frame that cannot be read or whose scoring raises adds no entry to
\* frame_scores, and the loop continues with the next sampled frame.
C8_BadFrameSkipped ==
    \A x \in LoopAnswers : SkipsAndContinues(x)

\* The first position of the capture that cannot be read.
FirstUnreadable(frames) ==
    CHOOSE p \in 0..Len(frames) :
      /\ p = Len(frames) \/ frames[p + 1] = NoFrame
      /\ \A q \in 0..(p - 1) : frames[q + 1] # NoFrame

\* C8, amended: backend/app skips a sampled frame that cannot be read or whose
\* scoring raises and continues with the next one.  In main.py a frame that
\* cannot be read ends the loop (the frames after it are not scored), and a
\* sampled frame whose scoring raises adds the neutral score 50.0 to
\* frame_scores; the request is answered with 200 all the same.
C8_SkippedInAppOnly ==
    /\ variant = "app" => \A x \in LoopAnswers : SkipsAndContinues(x)
    /\ variant = "main" =>
         \A x \in LoopAnswers :
           LET frames == AnalysedFrames(x)
           IN  /\ Positions(x.obs.scored)
                    = {p \in SampledPositions(x.obs.frame_count) :
                         p < FirstUnreadable(frames)}
               /\ Len(x.obs.frame_scores) = Len(x.obs.scored)
               /\ \A i \in 1..Len(x.obs.scored) :
                    Picture(frames[x.obs.scored[i] + 1]).raises =>
                      x.obs.frame_scores[i] = Pts(50)

\* C8 happens: main.py has answered a video whose second frame makes the
\* scoring raise, with 50.0 as the second frame score.
C8_Witness ==
    /\ variant = "main"
    /\ \E x \in LoopAnswers :
         /\ Len(x.obs.scored) = 4
         /\ Picture(AnalysedFrames(x)[x.obs.scored[2] + 1]).raises
         /\ x.obs.frame_scores[2] = Pts(50)
         /\ x.body.frames_analyzed = 4

\* The filename extension or the content type marks the upload as an image
\* or a video.
MarkedImageOrVideo(r) ==
    \/ Lower(SplitExt(r.filename)) \in new_backend_image_extensions
    \/ Lower(SplitExt(r.filename)) \in new_backend_video_extensions
    \/ StartsWith(r.content_type, ImagePrefix)
    \/ StartsWith(r.content_type, VideoPrefix)

\* C9: in new_backend.py, POST /predict/ for an upload whose extension or
\* content type marks it as an image or a video is answered, whatever the
\* bytes are, with 200, a score in 0..100, a category and the file_path
\* /uploads/<saved name> of a file that holds the bytes (the one other
\* outcome is the 500 of a disk write that failed).
C9_AnyBytesScored ==
    variant = "new_backend" =>
      \A x \in Answered :
        MarkedImageOrVideo(x.r) =>
          \/ x.status = 500 /\ x.detail = "Error saving file"
          \/ /\ x.status = 200
             /\ {"score", "category", "file_path"} \subseteq x.body.keys
             /\ 0 <= x.body.score /\ x.body.score <= Pts(100)
             /\ x.body.category \in {"Likely Authentic",
                                     "Potentially Manipulated",
                                     "Likely Manipulated"}
             /\ x.body.file_path.dir = <<"/", "uploads">>
             /\ x.body.file_path.ext = Lower(SplitExt(x.r.filename))
             /\ FileOf(x.body.file_path) \in DOMAIN disk
             /\ disk[FileOf(x.body.file_path)] = x.r.data

\* C9 happens: new_backend.py has scored an empty upload and a .jpg upload
\* that holds plain text.
C9_Witness ==
    /\ variant = "new_backend"
    /\ \E x \in Predicted : x.r.data = "" /\ Size(x.r.data) = 0
    /\ \E x \in Predicted :
         /\ x.r.data = "Test image content"
         /\ Imread(x.r.data) = "None"
         /\ x.r.filename = <<"t", ".", "j", "p", "g">>

\* The extension of a filename: what starts at its last dot, when a character
\* other than a dot precedes that dot; else nothing.
OriginalExtension(filename) ==
    LET starts == {d \in 1..Len(filename) :
                     /\ filename[d] = "."
                     /\ \A j \in (d + 1)..Len(filename) : filename[j] # "."
                     /\ \E j \in 1..(d - 1) : filename[j] # "."}
    IN  IF starts = {} THEN <<>>
        ELSE SubSeq(filename, CHOOSE d \in starts : TRUE, Len(filename))

\* C10: POST /upload/ of main.py and new_backend.py answers 200 with filename
\* <uuid><original extension> (.jpg when the upload has no filename) and
\* file_path /uploads/<filename>; the file of that name is in uploads and
\* holds exactly the uploaded bytes; no two uploads get the same name (the one
\* other outcome is the 500 of a disk write that failed).
C10_UploadStored ==
    variant \in {"main", "new_backend"} =>
      /\ \A x \in Sent :
           x.endpoint = "upload" =>
             \/ /\ x.status = 500
                /\ x.detail \in {"Error writing file to disk",
                                 "Error uploading file"}
             \/ /\ x.status = 200
                /\ {"filename", "file_path"} \subseteq x.body.keys
                /\ x.body.filename.dir = <<>>
                /\ x.body.filename.prefix = ""
                /\ x.body.filename.uuid \in 1..uuids
                /\ x.body.filename.ext =
                     IF x.r.filename = <<>> THEN <<".", "j", "p", "g">>
                     ELSE OriginalExtension(x.r.filename)
                /\ x.body.file_path =
                     [x.body.filename EXCEPT !.dir = <<"/", "uploads">>]
                /\ LET file == [x.body.filename EXCEPT !.dir = <<"uploads">>]
                   IN  file \in DOMAIN disk /\ disk[file] = x.r.data
      /\ \A i, j \in 1..Len(responses) :
           (/\ i # j
            /\ responses[i].endpoint = "upload" /\ responses[i].status = 200
            /\ responses[j].endpoint = "upload" /\ responses[j].status = 200)
             => responses[i].body.filename # responses[j].body.filename

\* C10 happens: an upload named e.PNG was stored as <uuid>.PNG and an upload
\* without a filename as <uuid>.jpg.
C10_Witness ==
    /\ variant \in {"main", "new_backend"}
    /\ \E x \in Sent :
         /\ x.endpoint = "upload" /\ x.status = 200
         /\ x.r.filename = <<"e", ".", "P", "N", "G">>
         /\ x.body.filename.ext = <<".", "P", "N", "G">>
    /\ \E x \in Sent :
         /\ x.endpoint = "upload" /\ x.status = 200
         /\ x.r.filename = <<>>
         /\ x.body.filename.ext = <<".", "j", "p", "g">>

FeatureKeys ==
    {"cnn_score", "fft_score", "noise_score", "edge_score", "texture_score"}

Categories ==
    {"Likely Authentic", "Potentially Manipulated", "Likely Manipulated"}

\* C11: in main.py, POST /predict/ with a decodable image sent with an
\* image/* content type is answered with 200: a score in 0..100 with 2
\* decimals, category, is_deepfake, file_type 'image', feature_contributions
\* with exactly the five keys, and file_path /uploads/<uuid><ext> of the file
\* saved for this request; the body has no frame_scores and no
\* thumbnail_path (the one other outcome is the 500 of a disk write that
\* failed).
C11_ImageResponse ==
    variant = "main" =>
      \A i \in 1..Len(responses) :
        LET x == responses[i]
        IN  (/\ x.endpoint = "predict"
             /\ StartsWith(x.r.content_type, ImagePrefix)
             /\ Imread(x.r.data) # "None") =>
              \/ x.status = 500 /\ x.detail = "Error writing file to disk"
              \/ /\ x.status = 200
                 /\ x.body.keys = {"score", "category", "is_deepfake",
                                   "file_path", "file_type",
                                   "feature_contributions"}
                 /\ 0 <= x.body.score /\ x.body.score <= Pts(100)
                 /\ x.body.score % (Scale \div 100) = 0
                 /\ x.body.category \in Categories
                 /\ x.body.is_deepfake \in BOOLEAN
                 /\ x.body.file_type = "image"
                 /\ DOMAIN x.body.feature_contributions = FeatureKeys
                 /\ x.body.file_path.dir = <<"/", "uploads">>
                 /\ x.body.file_path.prefix = ""
                 /\ x.body.file_path.ext =
                      IF x.r.filename = <<>> THEN <<".", "j", "p", "g">>
                      ELSE OriginalExtension(x.r.filename)
                 /\ FileOf(x.body.file_path) \in DOMAIN disk
                 /\ disk[FileOf(x.body.file_path)] = x.r.data
                 /\ \A j \in 1..Len(responses) :
                      (j # i /\ responses[j].status = 200) =>
                        responses[j].body.file_path # x.body.file_path

\* C11 happens: main.py has answered two decodable images with 200, one of
\* them sent without a filename and saved as <uuid>.jpg.
C11_Witness ==
    /\ variant = "main"
    /\ \E x, y \in Predicted :
         /\ x.body.file_type = "image" /\ y.body.file_type = "image"
         /\ x.r.filename = <<>>
         /\ x.body.file_path.ext = <<".", "j", "p", "g">>
         /\ y.r.filename # <<>>
         /\ y.body.file_path.uuid # x.body.file_path.uuid

\* The responses of GET /health.
HealthAnswers == {x \in Sent : x.endpoint = "health"}

\* C12: GET /health of main.py and new_backend.py answers 200 with status
\* 'healthy' in every state, whether or not the uploads directory exists and
\* is writable (that shows in uploads_directory only); main.py reports
\* model_loaded false in every state, whether or not the model file exists.
C12_HealthAlwaysHealthy ==
    /\ \A x \in HealthAnswers :
         /\ x.status = 200
         /\ "status" \in x.body.keys
         /\ x.body.status = "healthy"
         /\ "uploads_directory" \in x.body.keys
         /\ x.body.uploads_directory \in BOOLEAN
         /\ variant = "main" =>
              /\ "model_loaded" \in x.body.keys
              /\ x.body.model_loaded = FALSE
    /\ variant = "main" => model_loaded = FALSE

\* C12 happens: main.py, started with the model file in place, has answered
\* /health once with a usable uploads directory and once without it.
C12_Witness ==
    /\ variant = "main"
    /\ model_file_exists
    /\ \E x, y \in HealthAnswers :
         /\ x.body.uploads_directory
         /\ ~y.body.uploads_directory
         /\ x.body.model_file_exists /\ y.body.model_file_exists
         /\ x.body.status = "healthy" /\ y.body.status = "healthy"

\* An upload main.py accepts by its content type and cannot use: empty, an
\* image cv2.imread cannot decode, a video that cannot be opened or that
\* reports no frame.
Unusable(r) ==
    \/ /\ StartsWith(r.content_type, ImagePrefix)
       /\ Size(r.data) = 0 \/ Imread(r.data) = "None"
    \/ /\ ~StartsWith(r.content_type, ImagePrefix)
       /\ StartsWith(r.content_type, VideoPrefix)
       /\ \/ Size(r.data) = 0
          \/ ~VideoCapture(r.data).opened
          \/ VideoCapture(r.data).frame_count = 0

\* C13: in main.py a /predict/ upload with an image/* or video/* content
\* type that is unusable (empty, an undecodable image, a video that cannot be
\* opened, a video of frame_count 0) and was written to disk is answered
\* with 400, not 500.
C13_UnusableIs400 ==
    variant = "main" =>
      \A x \in Answered :
        (Unusable(x.r) /\ x.detail # "Error writing file to disk") =>
          x.status = 400

\* The files on disk that were made for the request of file id `id`.
FilesOf(id) == {p \in DOMAIN disk : p.uuid = id}

\* C14: in backend/app, when the analysis of a saved upload fails the request
\* ends with 500 and neither the saved upload nor the thumbnail made for it
\* is on disk afterwards.  (backend/app draws the file id of its i-th request
\* as the i-th uuid.)
C14_FailedAnalysisLeavesNothing ==
    variant = "app" =>
      \A i \in 1..Len(responses) :
        responses[i].detail = "Failed to analyze file" =>
          /\ responses[i].status = 500
          /\ FilesOf(i) = {}

\* The extensions backend/app supports.
AppExtensions ==
    { <<".", "j", "p", "g">>, <<".", "j", "p", "e", "g">>,
      <<".", "p", "n", "g">>, <<".", "m", "p", "4">>, <<".", "m", "o", "v">>,
      <<".", "a", "v", "i">> }

\* The upload is of a type the running variant does not support.
Unsupported(r) ==
    CASE variant = "main" ->
           /\ ~StartsWith(r.content_type, ImagePrefix)
           /\ ~StartsWith(r.content_type, VideoPrefix)
      [] variant = "new_backend" -> ~MarkedImageOrVideo(r)
      [] variant = "app" ->
           \/ r.filename = <<>>
           \/ Lower(OriginalExtension(r.filename)) \notin AppExtensions

\* C15: a /predict/ request whose file is of an unsupported type (main.py: by
\* content type; new_backend.py: by extension and content type; backend/app:
\* by lowercased extension, or without filename) is answered with 400, and
\* it is answered by the first step of its handler, which writes nothing:
\* the files on disk are the same before and after.
C15_UnsupportedLeavesDisk ==
    /\ [](\A x \in Answered : Unsupported(x.r) => x.status = 400)
    /\ [][ (/\ Len(responses') > Len(responses)
            /\ responses'[Len(responses')].endpoint = "predict"
            /\ Unsupported(responses'[Len(responses')].r)) =>
             (/\ req.pc = "idle"
              /\ responses'[Len(responses')].status = 400
              /\ disk' = disk) ]_vars

\* C15 happens: a request of unsupported type was answered with 400 after an
\* earlier request had left a file on disk.
C15_Witness ==
    /\ Len(responses) = 2
    /\ responses[1].status = 200
    /\ responses[2].endpoint = "predict"
    /\ Unsupported(responses[2].r)
    /\ responses[2].status = 400
    /\ DOMAIN disk # {}

\* The most bytes backend/app takes for an upload of this name: 20 MB for an
\* image, 100 MB for a video.
SizeLimit(r) ==
    IF Lower(OriginalExtension(r.filename))
         \in { <<".", "j", "p", "g">>, <<".", "j", "p", "e", "g">>,
               <<".", "p", "n", "g">> }
    THEN 20 * 1024 * 1024
    ELSE 100 * 1024 * 1024

SizeRejections ==
    {"Empty file content", "Image file too large. Maximum size is 20MB.",
     "Video file too large. Maximum size is 100MB."}

\* C16: in backend/app an upload of supported type with empty content, an
\* image of more than 20 MB or a video of more than 100 MB is answered with
\* 400 and no file of the request was written; content of at most the limit
\* (exactly the limit included) is not refused for its size and is written;
\* the check of the saved file's size (validate_file_size) never refuses a
\* file.
C16_SizeLimits ==
    variant = "app" =>
      /\ \A i \in 1..Len(responses) :
           LET x == responses[i]
           IN  ~Unsupported(x.r) =>
                 /\ Size(x.r.data) = 0 =>
                      /\ x.status = 400 /\ x.detail = "Empty file content"
                      /\ FilesOf(i) = {}
                 /\ Size(x.r.data) > SizeLimit(x.r) =>
                      /\ x.status = 400
                      /\ x.detail \in SizeRejections \ {"Empty file content"}
                      /\ FilesOf(i) = {}
                 /\ (0 < Size(x.r.data) /\ Size(x.r.data) <= SizeLimit(x.r)) =>
                      /\ x.status # 400
                      /\ x.detail \notin SizeRejections
                 /\ x.detail # "size exceeds maximum allowed"
      /\ req.pc \in {"thumbnail", "analyze", "app_loop"} =>
           /\ 0 < Size(req.r.data)
           /\ Size(req.r.data) <= SizeLimit(req.r)
           /\ Saved(disk, req)

\* C16 happens: backend/app has refused an image of 20 MB + 1 byte and is
\* analysing the saved image of exactly 20 MB.
C16_Witness ==
    /\ variant = "app"
    /\ \E x \in Answered :
         /\ Size(x.r.data) = 20 * 1024 * 1024 + 1
         /\ x.status = 400
    /\ req.pc = "analyze"
    /\ Size(req.r.data) = 20 * 1024 * 1024
    /\ Saved(disk, req)

\* A video request of main.py that got as far as process_video: sent with a
\* video/* content type and written to disk.
VideoProcessed(x) ==
    /\ x.endpoint = "predict"
    /\ ~StartsWith(x.r.content_type, ImagePrefix)
    /\ StartsWith(x.r.content_type, VideoPrefix)
    /\ x.detail # "Error writing file to disk"

\* A predict request of main.py whose upload was written to disk.
Stored(x) ==
    /\ x.endpoint = "predict"
    /\ x.status # 400
    /\ x.detail # "Error writing file to disk"

\* C17 as stated: in main.py, once a video was answered with at least one
\* frame scored, every later predict request with the same bytes (whose upload
\* could be written) is served from prediction_cache with the same score,
\* category and is_deepfake, and scores no frame.
C17_SameBytesFromCache ==
    variant = "main" =>
      \A i, j \in 1..Len(responses) :
        (/\ i < j
         /\ VideoProcessed(responses[i])
         /\ responses[i].status = 200
         /\ responses[i].obs.cached \/ Len(responses[i].obs.scored) >= 1
         /\ Stored(responses[j])
         /\ responses[j].r.data = responses[i].r.data) =>
          /\ responses[j].status = 200
          /\ responses[j].obs.cached
          /\ responses[j].obs.scored = <<>>
          /\ SameVerdict(responses[i], responses[j])

\* C17: in main.py, once a video was answered with at least one frame scored
\* (or from prediction_cache), every later request with the same bytes that is
\* sent with a video/* content type and written to disk is served from
\* prediction_cache: it is answered with the same score, category and
\* is_deepfake and scores no frame; the frame loop never runs for bytes whose
\* digest is in prediction_cache.
C17_ServedFromCache ==
    variant = "main" =>
      /\ \A i, j \in 1..Len(responses) :
           (/\ i < j
            /\ VideoProcessed(responses[i])
            /\ responses[i].status = 200
            /\ responses[i].obs.cached \/ Len(responses[i].obs.scored) >= 1
            /\ VideoProcessed(responses[j])
            /\ responses[j].r.data = responses[i].r.data) =>
             /\ responses[j].status = 200
             /\ responses[j].obs.cached
             /\ responses[j].obs.scored = <<>>
             /\ SameVerdict(responses[i], responses[j])
      /\ \A x \in Predicted :
           (VideoProcessed(x) /\ (x.obs.cached \/ Len(x.obs.scored) >= 1)) =>
             Md5Hex(x.r.data) \in DOMAIN prediction_cache
      /\ req.pc \in {"loop", "average"} =>
           Md5Hex(req.r.data) \notin DOMAIN prediction_cache

\* C17 happens: main.py has scored the ten sampled frames of a video and then
\* answered the same bytes from prediction_cache.
C17_Witness ==
    /\ variant = "main"
    /\ Len(responses) = 2
    /\ VideoProcessed(responses[1]) /\ VideoProcessed(responses[2])
    /\ responses[1].r.data = responses[2].r.data
    /\ Len(responses[1].obs.scored) = 10
    /\ ~responses[1].obs.cached
    /\ responses[2].obs.cached
    /\ responses[2].body.score = responses[1].body.score

\* A value between 0.0 and 100.0.
InRange(x) == 0 <= x /\ x <= Pts(100)

\* Each of the five feature contributions is between 0.0 and 100.0.
FeaturesInRange(f) ==
    /\ InRange(f.cnn_score) /\ InRange(f.fft_score) /\ InRange(f.noise_score)
    /\ InRange(f.edge_score) /\ InRange(f.texture_score)

\* The pictures the uploads decode to.
Pictures == {"FA", "FB", "FC", "FRaise"}

\* C18: in main.py analyze_with_hybrid_approach, where it returns, returns a
\* final score and five feature contributions between 0 and 100, the picture
\* that cannot be encoded (cnn_score 50) included; and every score, frame
\* score and feature contribution of a response of main.py, unrounded and as
\* reported, from the analysis or from prediction_cache, is between 0 and 100.
C18_ScoresInRange ==
    variant = "main" =>
      /\ \A image \in Pictures :
           LET a == analyze_with_hybrid_approach(image)
           IN  ~a.raised => InRange(a.score) /\ FeaturesInRange(a.features)
      /\ \A image \in Pictures :
           ~Picture(image).encodes => main_cnn_score(image) = Pts(50)
      /\ \A x \in Predicted :
           /\ InRange(x.obs.raw_score) /\ InRange(x.body.score)
           /\ FeaturesInRange(x.obs.features)
           /\ FeaturesInRange(x.body.feature_contributions)
           /\ \A i \in 1..Len(x.obs.frame_scores) :
                InRange(x.obs.frame_scores[i])
           /\ \A i \in 1..Len(x.body.frame_scores) :
                InRange(x.body.frame_scores[i])
      /\ \A i \in 1..Len(req.frame_scores) : InRange(req.frame_scores[i])
      /\ \A h \in DOMAIN prediction_cache : InRange(prediction_cache[h])

\* C18 happens: main.py has scored the three frames of a video, one of them a
\* picture whose standard deviation needs the clamp (fft_score 100) and one a
\* picture that cannot be encoded (cnn_score 50), and has then answered the
\* same bytes from prediction_cache.
C18_Witness ==
    /\ variant = "main"
    /\ Len(responses) = 2
    /\ responses[1].status = 200 /\ responses[2].status = 200
    /\ responses[1].r.data = "clip3" /\ responses[2].r.data = "clip3"
    /\ Len(responses[1].obs.frame_scores) = 3
    /\ responses[1].obs.frame_scores[2] =
         analyze_with_hybrid_approach("FB").score
    /\ analyze_with_hybrid_approach("FB").features.fft_score = Pts(100)
    /\ extract_signal_features("FB").std * 2 > Pts(100)
    /\ responses[1].obs.frame_scores[3] =
         analyze_with_hybrid_approach("FC").score
    /\ analyze_with_hybrid_approach("FC").features.cnn_score = Pts(50)
    /\ responses[2].obs.cached
    /\ Len(responses[2].body.frame_scores) = 3

\* The category the thresholds 80 and 50 give a score.
CategoryOf(category, score) ==
    /\ score > Pts(80) => category = "Likely Manipulated"
    /\ (Pts(50) < score /\ score <= Pts(80)) =>
         category = "Potentially Manipulated"
    /\ score <= Pts(50) => category = "Likely Authentic"

\* The scores around the two thresholds and at the ends of the range.
ThresholdScores ==
    {Pts(n) : n \in {0, 49, 50, 51, 79, 80, 81, 100}}
      \cup {Pts(50) - 1, Pts(50) + 1, Pts(80) - 1, Pts(80) + 1}

\* C19: in main.py and new_backend.py get_result_category maps a score above
\* 80 to "Likely Manipulated", a score above 50 and at most 80 to "Potentially
\* Manipulated" and a score of at most 50 to "Likely Authentic"; in every
\* response the category is that of the unrounded score, the reported score is
\* that score rounded, and is_deepfake is true exactly when the category is
\* not "Likely Authentic" (false at exactly 50).
C19_CategoryAndFlag ==
    variant \in {"main", "new_backend"} =>
      /\ \A score \in ThresholdScores :
           CategoryOf(get_result_category(score), score)
      /\ \A x \in Predicted :
           /\ x.body.score = Round2(x.obs.raw_score)
           /\ CategoryOf(x.body.category, x.obs.raw_score)
           /\ x.body.is_deepfake = (x.body.category # "Likely Authentic")
           /\ x.obs.raw_score = Pts(50) => ~x.body.is_deepfake

\* C19 happens: one response on the boundary (score exactly 50, "Likely
\* Authentic", is_deepfake false) and one above it (is_deepfake true).
C19_Witness ==
    /\ variant \in {"main", "new_backend"}
    /\ \E x, y \in Predicted :
         /\ x.obs.raw_score = Pts(50)
         /\ x.body.category = "Likely Authentic"
         /\ ~x.body.is_deepfake
         /\ y.obs.raw_score > Pts(50)
         /\ y.body.category # "Likely Authentic"
         /\ y.body.is_deepfake

\* C20: in every video response frames_analyzed is the length of
\* frame_scores and at most 10; in main.py it is also at most the frame_count
\* the capture reports, from the frame loop and from prediction_cache alike;
\* in new_backend.py it is exactly 10.
C20_FramesAnalyzedBounds ==
    \A x \in Predicted :
      x.body.file_type = "video" =>
        /\ x.body.frames_analyzed = Len(x.body.frame_scores)
        /\ x.body.frames_analyzed <= 10
        /\ variant = "main" =>
             /\ x.obs.frame_count = VideoCapture(x.r.data).frame_count
             /\ x.body.frames_analyzed <= x.obs.frame_count
        /\ variant = "new_backend" => x.body.frames_analyzed = 10

\* The most frames the claim lets main.py's loop read from a capture that
\* reports frame_count frames:
\* (min(10, frame_count) - 1) * max(1, frame_count // min(10, frame_count)) + 1
ReadBound(frame_count) ==
    LET n == Min(10, frame_count)
    IN  (n - 1) * Max(1, frame_count \div n) + 1

\* C21: in main.py the frame loop of process_video, when it has ended, has
\* scored at most min(10, frame_count) frames and read at most
\* ReadBound(frame_count) frames, also when the stream holds more or fewer
\* frames than the capture reports; it ends at the first failed read or as
\* soon as min(10, frame_count) frames are scored.  In backend/app the frame
\* loop reads the uploaded file or a copy of at most 100 frames.
C21_LoopBounds ==
    /\ (variant = "main" /\ req.pc = "average") =>
         /\ Len(req.frame_scores) <= Min(10, req.frame_count)
         /\ req.reads <= ReadBound(req.frame_count)
         /\ \/ ~CanRead(req.frames, req.frame_index)
            \/ Len(req.frame_scores) = Min(10, req.frame_count)
    /\ variant = "main" =>
         \A x \in LoopAnswers :
           /\ Len(x.obs.scored) <= Min(10, x.obs.frame_count)
           /\ x.obs.reads <= ReadBound(x.obs.frame_count)
    /\ (variant = "app" /\ req.pc = "app_loop") =>
         LET original == VideoCapture(req.r.data)
         IN  \/ /\ req.frames = original.frames
                /\ req.frame_count = original.frame_count
             \/ /\ req.frames = CopiedFrames(original.frames, MAX_FRAMES_COPIED)
                /\ req.frame_count = Len(req.frames)
                /\ Len(req.frames) <= 100

====
